---- MODULE Spec2Model ----
(***************************************************************************)
(* A model of the anyclaude adapter: the neutral prompt -> Anthropic       *)
(* message converter (convert-anthropic-messages.ts), the stream           *)
(* transcoder (convert-to-anthropic-stream.ts) and the error handling of   *)
(* the proxy's /v1/messages handler (anthropic-proxy.ts).                  *)
(*                                                                         *)
(* Three specifications share the variables:                               *)
(*   SpecPrompt  builds a neutral prompt and converts it;                  *)
(*   SpecStream  feeds one transcoder instance the events of a driver;     *)
(*   Spec        runs one /v1/messages request through the handler.        *)
(***************************************************************************)
EXTENDS Integers, Sequences, FiniteSets, TLC

VARIABLES
  \* ---- convertToAnthropicMessagesPrompt
  prompt,          \* the LanguageModelV2Prompt handed to the converter
  sendReasoning,   \* its sendReasoning argument
  conv,            \* its outcome: NotRun, or [threw, system, messages, warnings]
  \* ---- convertToAnthropicStream (one instance)
  index,           \* let index = 0
  reasoningBuffer, \* let reasoningBuffer = ""
  received,        \* the chunks of the driver's stream consumed so far, in order
  emitted,         \* the chunks enqueued on the readable side, in order
  tstate,          \* "open" | "errored" (controller.error) | "closed"
  dpc,             \* the driver's position in its stream
  \* ---- the /v1/messages handler, one request
  pc,              \* the handler's position
  providerName,    \* the provider the model prefix selected
  bodyStream,      \* body.stream
  res,             \* the http.ServerResponse
  nwritten,        \* chunks of `emitted` the WritableStream has been given
  onErrorArg,      \* the error streamText still has to hand to onError
  driverError,     \* the error the driver raised in this request
  onErrorOutcome,  \* what onError computed: [statusCode, kind]
  conversion,      \* what convertProviderErrorToAnthropic returned last
  rewrites,        \* response heads attempted after the response had begun
  thrown,          \* the error the handler's promise was rejected with
  providers,       \* the names of the registered drivers
  req,             \* the HTTP request received
  model,           \* the model name handed to the driver
  upstream,        \* the request forwarded to api.anthropic.com
  alive,           \* the server process is running
  aborted,         \* where the request stood when its client went away
  schemaProvider,  \* providerizeSchema: the provider argument
  schema,          \* providerizeSchema: the caller's schema
  adapted,         \* providerizeSchema(provider, schema)
  readapted,       \* providerizeSchema(provider, adapted)
  heap,            \* the objects the schemas are made of, and the calls' results
  inbound,         \* convertFromAnthropicMessages: the Anthropic messages
  neutral,         \* convertFromAnthropicMessages(inbound)
  rendered,        \* the last assistant turn of neutral, rendered again
  instances,       \* the convertToAnthropicStream instances running at once
  DEFAULT_CONFIG,  \* the object DEFAULT_CONFIG, with its providers and claude
  configFile,      \* ~/.claude_route/config.json
  config,          \* the config the setup wizard has loaded
  earlier          \* index, reasoningBuffer left by the response ended last

promptVars == <<prompt, sendReasoning, conv>>
streamVars == <<index, reasoningBuffer, received, emitted, tstate, dpc>>
proxyVars  == <<pc, providerName, bodyStream, res, nwritten, onErrorArg,
                driverError, onErrorOutcome, conversion, rewrites, thrown>>
routeVars  == <<providers, req, model, upstream, alive>>
schemaVars == <<schemaProvider, schema, adapted, readapted, heap>>
parseVars  == <<inbound, neutral, rendered>>
configVars == <<DEFAULT_CONFIG, configFile, config>>
vars == <<prompt, sendReasoning, conv,
          index, reasoningBuffer, received, emitted, tstate, dpc,
          pc, providerName, bodyStream, res, nwritten, onErrorArg,
          driverError, onErrorOutcome, conversion, rewrites, thrown,
          providers, req, model, upstream, alive, aborted,
          schemaProvider, schema, adapted, readapted, heap,
          inbound, neutral, rendered, instances, earlier,
          DEFAULT_CONFIG, configFile, config>>

(***************************************************************************)
(* Bounds of the explored inputs.                                          *)
(***************************************************************************)
MaxTurns == 2
MaxParts == 3
MaxPromptLen == 3
MaxBody == 3
MaxSchemaDepth == 2
MaxInstances == 2

(***************************************************************************)
(* JavaScript values.  Every value carries its typeof in field t, so that  *)
(* values of different types compare unequal instead of not comparing.     *)
(***************************************************************************)
Undefined == [t |-> "undefined"]
Str(s) == [t |-> "string", s |-> s]
Num(n) == [t |-> "number", n |-> n]
\* a plain object (inst = FALSE) or an Error instance (inst = TRUE)
Obj(fields) == [t |-> "object", f |-> fields, inst |-> FALSE]
Err(message) == [t |-> "object", f |-> [message |-> Str(message)], inst |-> TRUE]

\* a + b on strings: the string made of a followed by b
Concat(a, b) == Str(<<a, b>>)

\* v?.name
Get(v, name) ==
  IF v.t = "object" /\ name \in DOMAIN v.f THEN v.f[name] ELSE Undefined

\* a ?? b
Nullish(a, b) == IF a = Undefined THEN b ELSE a

\* a || b on numbers and undefined
NullishAsOr(a, b) == IF a = Undefined \/ a = Num(0) THEN b ELSE a

RECURSIVE SeqSum(_)
SeqSum(s) == IF s = <<>> THEN 0 ELSE Head(s) + SeqSum(Tail(s))

SelectSeqIdx(s, Test(_)) ==
  LET F[i \in 0..Len(s)] ==
        IF i = 0 THEN <<>>
        ELSE IF Test(i) THEN Append(F[i - 1], i) ELSE F[i - 1]
  IN F[Len(s)]

(***************************************************************************)
(* Strings that are trimmed are sequences of one-character strings.        *)
(***************************************************************************)
IsWhitespace(c) == c = " "

RECURSIVE TrimStart(_)
TrimStart(s) ==
  IF s # <<>> /\ IsWhitespace(Head(s)) THEN TrimStart(Tail(s)) ELSE s

RECURSIVE TrimEnd(_)
TrimEnd(s) ==
  IF s # <<>> /\ IsWhitespace(s[Len(s)])
  THEN TrimEnd(SubSeq(s, 1, Len(s) - 1))
  ELSE s

\* String.prototype.trim
Trim(s) == TrimEnd(TrimStart(s))

(***************************************************************************)
(* convertToAnthropicMessagesPrompt (convert-anthropic-messages.ts).       *)
(*                                                                         *)
(* A neutral message is [role, content, text, cc]: content is the list of  *)
(* parts of a user, assistant or tool message, text the string content of  *)
(* a system message, cc the cache control its providerOptions carry        *)
(* ("none" when they carry none).  A part is a record with field type and  *)
(* the fields of that part type, plus its own cc.                          *)
(***************************************************************************)
NoCacheControl == "none"

TextPart(text, cc) == [type |-> "text", text |-> text, cc |-> cc]
ReasoningPart(text, cc) == [type |-> "reasoning", text |-> text, cc |-> cc]
FilePart(mediaType, data, cc) ==
  [type |-> "file", mediaType |-> mediaType, data |-> data, cc |-> cc]
ToolCallPart(id, name, input, cc) ==
  [type |-> "tool-call", toolCallId |-> id, toolName |-> name,
   input |-> input, cc |-> cc]
ToolResultPart(id, output, cc) ==
  [type |-> "tool-result", toolCallId |-> id, output |-> output, cc |-> cc]

Message(role, content, cc) ==
  [role |-> role, content |-> content, text |-> <<>>, cc |-> cc]
SystemMessage(text, cc) ==
  [role |-> "system", content |-> <<>>, text |-> text, cc |-> cc]

\* getCacheControl: the providerOptions' anthropic cacheControl, passed through
getCacheControl(cc) == cc

\* the cacheControl of the message given to every part that has none
partCacheControlAnyPart(part, message, isLastPart) ==
  IF getCacheControl(part.cc) # NoCacheControl
  THEN getCacheControl(part.cc)
  ELSE getCacheControl(message.cc)

\* getCacheControl(part.providerOptions) ??
\*   (isLastPart ? getCacheControl(message.providerOptions) : undefined)
partCacheControl(part, message, isLastPart) ==
  IF getCacheControl(part.cc) # NoCacheControl
  THEN getCacheControl(part.cc)
  ELSE IF isLastPart THEN getCacheControl(message.cc) ELSE NoCacheControl

\* the type of block a role opens or continues
blockTypeOf(role) == IF role = "tool" THEN "user" ELSE role

\* groupIntoBlocks: consecutive messages of one block type form one block
RECURSIVE groupInto(_, _)
groupInto(blocks, rest) ==
  IF rest = <<>> THEN blocks
  ELSE LET message == Head(rest)
           type == blockTypeOf(message.role)
           n == Len(blocks)
       IN IF n > 0 /\ blocks[n].type = type
          THEN groupInto(
                 [blocks EXCEPT ![n].messages = Append(@, message)],
                 Tail(rest))
          ELSE groupInto(
                 Append(blocks, [type |-> type, messages |-> <<message>>]),
                 Tail(rest))

groupIntoBlocks(p) == groupInto(<<>>, p)

\* ---- user blocks

StartsWithImage(mediaType) == mediaType \in {"image/png", "image/jpeg"}

\* one part of a user message: the blocks pushed, and whether it threw
userPart(part, cacheControl) ==
  IF part.type = "text"
  THEN [threw |-> FALSE, beta |-> FALSE,
        push |-> <<[type |-> "text", text |-> part.text,
                    cache_control |-> cacheControl]>>]
  ELSE IF part.type = "file"
  THEN IF part.mediaType = "application/pdf"
       THEN [threw |-> FALSE, beta |-> TRUE,
             push |-> <<[type |-> "document", media_type |-> "application/pdf",
                         data |-> part.data,
                         cache_control |-> cacheControl]>>]
       ELSE IF StartsWithImage(part.mediaType)
       THEN [threw |-> FALSE, beta |-> FALSE,
             push |-> <<[type |-> "image", media_type |-> part.mediaType,
                         data |-> part.data,
                         cache_control |-> cacheControl]>>]
       ELSE [threw |-> TRUE, beta |-> FALSE, push |-> <<>>]
  ELSE [threw |-> FALSE, beta |-> FALSE, push |-> <<>>]

\* the switch on part.output.type of a tool message
toolResultContent(output) ==
  CASE output.type = "text" ->
         [content |-> [string |-> output.value, stringified |-> FALSE],
          is_error |-> FALSE]
    [] output.type = "json" ->
         [content |-> [string |-> output.value, stringified |-> TRUE],
          is_error |-> FALSE]
    [] output.type = "error-text" ->
         [content |-> [string |-> output.value, stringified |-> FALSE],
          is_error |-> TRUE]
    [] output.type = "error-json" ->
         [content |-> [string |-> output.value, stringified |-> TRUE],
          is_error |-> TRUE]
    [] OTHER ->
         [content |->
            [i \in 1..Len(output.value) |->
               LET c == output.value[i]
               IN IF c.type = "text"
                  THEN [type |-> "text", text |-> c.text]
                  ELSE IF c.mediaType = "application/pdf"
                  THEN [type |-> "text", text |-> "[document content omitted]"]
                  ELSE [type |-> "image", media_type |-> c.mediaType,
                        data |-> c.data]],
          is_error |-> FALSE]

toolPart(part, cacheControl) ==
  LET r == toolResultContent(part.output)
  IN [type |-> "tool_result", tool_use_id |-> part.toolCallId,
      content |-> r.content, is_error |-> r.is_error,
      cache_control |-> cacheControl]

\* the parts of one user or tool message, from part j on
RECURSIVE userMessageParts(_, _, _)
userMessageParts(message, j, acc) ==
  IF acc.threw \/ j > Len(message.content) THEN acc
  ELSE LET part == message.content[j]
           cacheControl ==
             partCacheControl(part, message, j = Len(message.content))
       IN IF message.role = "user"
          THEN LET r == userPart(part, cacheControl)
               IN userMessageParts(message, j + 1,
                    [threw |-> r.threw,
                     betas |-> IF r.beta
                               THEN acc.betas \cup {"pdfs-2024-09-25"}
                               ELSE acc.betas,
                     content |-> acc.content \o r.push])
          ELSE userMessageParts(message, j + 1,
                 [acc EXCEPT !.content =
                    Append(@, toolPart(part, cacheControl))])

RECURSIVE userBlock(_, _, _)
userBlock(messages, i, acc) ==
  IF acc.threw \/ i > Len(messages) THEN acc
  ELSE userBlock(messages, i + 1, userMessageParts(messages[i], 1, acc))

\* ---- assistant blocks

\* case "text": trimmed when it is the last part of the last message of
\* the last block
pushText(content, part, cacheControl, trimIt) ==
  Append(content,
         [type |-> "text",
          text |-> IF trimIt THEN Trim(part.text) ELSE part.text,
          cache_control |-> cacheControl])

\* a reasoning part that is skipped without a warning
pushReasoningSilent(acc, part, cacheControl, send) ==
  IF send
  THEN [acc EXCEPT !.content =
          Append(@, [type |-> "thinking", thinking |-> part.text,
                     cache_control |-> cacheControl])]
  ELSE acc

\* case "reasoning"
pushReasoning(acc, part, cacheControl, send) ==
  IF send
  THEN [acc EXCEPT !.content =
          Append(@, [type |-> "thinking", thinking |-> part.text,
                     cache_control |-> cacheControl])]
  ELSE [acc EXCEPT !.warnings =
          Append(@, [type |-> "other",
                     message |->
                       "sending reasoning content is disabled for this model"])]

toolUseBlock(part, cacheControl) ==
  [type |-> "tool_use", id |-> part.toolCallId, name |-> part.toolName,
   input |-> part.input, cache_control |-> cacheControl]

\* a tool call replacing the block pushed before under its id
pushToolCallLastWins(content, part, cacheControl) ==
  IF \E i \in 1..Len(content) :
       content[i].type = "tool_use" /\ content[i].id = part.toolCallId
  THEN [i \in 1..Len(content) |->
          IF content[i].type = "tool_use" /\ content[i].id = part.toolCallId
          THEN toolUseBlock(part, cacheControl)
          ELSE content[i]]
  ELSE Append(content, toolUseBlock(part, cacheControl))

\* case "tool-call": skipped when anthropicContent already holds a tool_use
\* with this id
pushToolCall(content, part, cacheControl) ==
  IF \E i \in 1..Len(content) :
       content[i].type = "tool_use" /\ content[i].id = part.toolCallId
  THEN content
  ELSE Append(content, toolUseBlock(part, cacheControl))

\* the switch on part.type of an assistant message: no other case
assistantPart(acc, part, cacheControl, trimIt, send) ==
  CASE part.type = "text" ->
         [acc EXCEPT !.content = pushText(@, part, cacheControl, trimIt)]
    [] part.type = "reasoning" ->
         pushReasoning(acc, part, cacheControl, send)
    [] part.type = "tool-call" ->
         [acc EXCEPT !.content = pushToolCall(@, part, cacheControl)]
    [] OTHER -> acc

RECURSIVE assistantMessageParts(_, _, _, _, _)
assistantMessageParts(message, k, acc, lastOfPrompt, send) ==
  IF k > Len(message.content) THEN acc
  ELSE LET part == message.content[k]
           isLastContentPart == k = Len(message.content)
           cacheControl == partCacheControl(part, message, isLastContentPart)
       IN assistantMessageParts(message, k + 1,
            assistantPart(acc, part, cacheControl,
                          lastOfPrompt /\ isLastContentPart, send),
            lastOfPrompt, send)

RECURSIVE assistantBlock(_, _, _, _, _)
assistantBlock(messages, j, acc, isLastBlock, send) ==
  IF j > Len(messages) THEN acc
  ELSE assistantBlock(messages, j + 1,
         assistantMessageParts(messages[j], 1, acc,
                               isLastBlock /\ j = Len(messages), send),
         isLastBlock, send)

\* ---- the loop over the blocks

\* a system list made of the first turn of the run only
systemBlockFirstOnly(messages) ==
  <<[type |-> "text", text |-> messages[1].text,
     cache_control |-> getCacheControl(messages[1].cc)]>>

systemBlock(messages) ==
  [i \in 1..Len(messages) |->
     [type |-> "text", text |-> messages[i].text,
      cache_control |-> getCacheControl(messages[i].cc)]]

RECURSIVE convertBlocks(_, _, _, _)
convertBlocks(blocks, i, acc, send) ==
  IF acc.threw \/ i > Len(blocks) THEN acc
  ELSE LET block == blocks[i]
           isLastBlock == i = Len(blocks)
       IN CASE block.type = "system" ->
                 IF acc.hasSystem
                 THEN [acc EXCEPT !.threw = TRUE]
                 ELSE convertBlocks(blocks, i + 1,
                        [acc EXCEPT !.hasSystem = TRUE,
                                    !.system = systemBlock(block.messages)],
                        send)
            [] block.type = "user" ->
                 LET r == userBlock(block.messages, 1,
                            [threw |-> FALSE, betas |-> acc.betas,
                             content |-> <<>>])
                 IN IF r.threw
                    THEN [acc EXCEPT !.threw = TRUE]
                    ELSE convertBlocks(blocks, i + 1,
                           [acc EXCEPT
                              !.betas = r.betas,
                              !.messages =
                                Append(@, [role |-> "user",
                                           content |-> r.content])],
                           send)
            [] OTHER ->
                 LET r == assistantBlock(block.messages, 1,
                            [content |-> <<>>, warnings |-> acc.warnings],
                            isLastBlock, send)
                 IN convertBlocks(blocks, i + 1,
                      [acc EXCEPT
                         !.warnings = r.warnings,
                         !.messages =
                           Append(@, [role |-> "assistant",
                                      content |-> r.content])],
                      send)

\* the result { prompt: { system, messages }, betas } with the warnings
\* pushed; threw when an UnsupportedFunctionalityError left no result
convertToAnthropicMessagesPrompt(p, send) ==
  convertBlocks(groupIntoBlocks(p), 1,
    [threw |-> FALSE, hasSystem |-> FALSE, system |-> <<>>,
     messages |-> <<>>, warnings |-> <<>>, betas |-> {}],
    send)

(***************************************************************************)
(* The prompts explored: turns of the roles below, built part by part.     *)
(***************************************************************************)
NotRun == [ran |-> FALSE]

AssistantParts ==
  { TextPart(<<"a">>, NoCacheControl),
    TextPart(<<" ", "b", " ">>, NoCacheControl),
    ReasoningPart(<<"r">>, NoCacheControl),
    FilePart("image/png", "d", NoCacheControl),
    ToolCallPart("call_1", "TodoWrite", "in_1", NoCacheControl),
    ToolCallPart("call_1", "Read", "in_0", NoCacheControl),
    ToolCallPart("call_2", "TodoWrite", "in_1", NoCacheControl) }

UserParts == { TextPart(<<"u">>, NoCacheControl) }

PartsOf(role) == IF role = "assistant" THEN AssistantParts ELSE UserParts

PromptRoles == {"assistant", "user"}

RECURSIVE CountParts(_)
CountParts(p) ==
  IF p = <<>> THEN 0 ELSE Len(Head(p).content) + CountParts(Tail(p))

PromptIdle ==
  /\ prompt = <<>>
  /\ sendReasoning = FALSE
  /\ conv = NotRun

PromptInit ==
  /\ prompt = <<>>
  /\ sendReasoning \in BOOLEAN
  /\ conv = NotRun

\* the caller appends a message to the prompt
AddMessage(role) ==
  /\ ~conv.ran
  /\ Len(prompt) < MaxTurns
  /\ prompt' = Append(prompt, Message(role, <<>>, NoCacheControl))
  /\ UNCHANGED <<sendReasoning, conv>>

\* the caller appends a part to the last message of the prompt
AddPart(part) ==
  /\ ~conv.ran
  /\ prompt # <<>>
  /\ CountParts(prompt) < MaxParts
  /\ part \in PartsOf(prompt[Len(prompt)].role)
  /\ prompt' = [prompt EXCEPT ![Len(prompt)].content = Append(@, part)]
  /\ UNCHANGED <<sendReasoning, conv>>

\* the call convertToAnthropicMessagesPrompt({prompt, sendReasoning, warnings})
Convert ==
  /\ ~conv.ran
  /\ conv' = convertToAnthropicMessagesPrompt(prompt, sendReasoning)
                @@ [ran |-> TRUE]
  /\ UNCHANGED <<prompt, sendReasoning>>

(***************************************************************************)
(* The prompts explored turn by turn: system, user, tool and assistant     *)
(* turns, with and without a cacheControl of the turn and of its parts.    *)
(***************************************************************************)
ToolOutput == [type |-> "text", value |-> "out"]

TurnMessages ==
  { SystemMessage(<<"s">>, NoCacheControl),
    SystemMessage(<<"t">>, "ephemeral_1h"),
    Message("user", <<TextPart(<<"u">>, "ephemeral"),
                      TextPart(<<"v">>, NoCacheControl),
                      FilePart("image/png", "d", NoCacheControl)>>,
            "ephemeral_1h"),
    Message("user", <<TextPart(<<"u">>, NoCacheControl),
                      TextPart(<<"v">>, "ephemeral")>>, "ephemeral_1h"),
    Message("user", <<TextPart(<<"u">>, NoCacheControl),
                      FilePart("application/pdf", "d", NoCacheControl)>>,
            NoCacheControl),
    Message("user", <<FilePart("text/plain", "d", NoCacheControl)>>,
            NoCacheControl),
    Message("tool", <<ToolResultPart("call_1", ToolOutput, NoCacheControl),
                      ToolResultPart("call_2", ToolOutput, NoCacheControl)>>,
            "ephemeral_1h"),
    Message("tool", <<ToolResultPart("call_1", ToolOutput, "ephemeral")>>,
            NoCacheControl),
    Message("assistant", <<TextPart(<<"a">>, "ephemeral"),
                           ToolCallPart("call_1", "Read", "in_0",
                                        NoCacheControl),
                           ReasoningPart(<<"r">>, NoCacheControl)>>,
            "ephemeral_1h"),
    Message("assistant", <<ToolCallPart("call_1", "Read", "in_0",
                                        NoCacheControl),
                           TextPart(<<" ", "b", " ">>, NoCacheControl)>>,
            "ephemeral_1h"),
    Message("assistant", <<TextPart(<<"a">>, NoCacheControl),
                           ToolCallPart("call_1", "Read", "in_0",
                                        NoCacheControl)>>,
            "ephemeral_1h") }

\* the caller appends a whole turn to the prompt
AddTurn(message) ==
  /\ ~conv.ran
  /\ Len(prompt) < MaxPromptLen
  /\ prompt' = Append(prompt, message)
  /\ UNCHANGED <<sendReasoning, conv>>

\* a mapping that reports every unlisted finish reason as a normal end of turn
mapStopReasonDefaultEndTurn(finishReason) ==
  CASE finishReason = "tool-calls" -> "tool_use"
    [] finishReason = "length" -> "max_tokens"
    [] OTHER -> "end_turn"

(***************************************************************************)
(* convertToAnthropicStream (convert-to-anthropic-stream.ts) and           *)
(* mapAnthropicStopReason (anthropic-api-types.ts).                        *)
(*                                                                         *)
(* A neutral chunk is a record with field type and the fields of that      *)
(* chunk type; the error of an error chunk, the usage counters and the     *)
(* providerMetadata of a finish-step chunk are JavaScript values.          *)
(***************************************************************************)
mapAnthropicStopReason(finishReason) ==
  CASE finishReason = "stop" -> "end_turn"
    [] finishReason = "tool-calls" -> "tool_use"
    [] finishReason = "length" -> "max_tokens"
    [] OTHER -> "unknown"

\* cache_read_input_tokens with || where the code has ??
cacheReadWithOr(chunk) ==
  NullishAsOr(chunk.usage.cachedInputTokens,
    IF Get(Get(chunk.providerMetadata, "openai"), "cached_tokens").t = "number"
    THEN Get(Get(chunk.providerMetadata, "openai"), "cached_tokens")
    ELSE Num(0))

\* chunk.usage.cachedInputTokens ??
\*   (typeof chunk.providerMetadata?.openai?.cached_tokens === "number"
\*      ? chunk.providerMetadata.openai.cached_tokens : 0)
cacheRead(chunk) ==
  Nullish(chunk.usage.cachedInputTokens,
    IF Get(Get(chunk.providerMetadata, "openai"), "cached_tokens").t = "number"
    THEN Get(Get(chunk.providerMetadata, "openai"), "cached_tokens")
    ELSE Num(0))

messageStart ==
  [type |-> "message_start", id |-> "msg_now", role |-> "assistant",
   usage |-> [input_tokens |-> Num(0), output_tokens |-> Num(0),
              cache_creation_input_tokens |-> Num(0),
              cache_read_input_tokens |-> Num(0)]]

messageDelta(chunk) ==
  [type |-> "message_delta",
   stop_reason |-> mapAnthropicStopReason(chunk.finishReason),
   stop_sequence |-> "null",
   usage |-> [input_tokens |-> Nullish(chunk.usage.inputTokens, Num(0)),
              output_tokens |-> Nullish(chunk.usage.outputTokens, Num(0)),
              cache_creation_input_tokens |-> Num(0),
              cache_read_input_tokens |-> cacheRead(chunk)]]

blockStart(i, content_block) ==
  [type |-> "content_block_start", index |-> i,
   content_block |-> content_block]
blockDelta(i, delta) ==
  [type |-> "content_block_delta", index |-> i, delta |-> delta]
blockStop(i) == [type |-> "content_block_stop", index |-> i]

\* case "error": the message is the Error's message, or the error itself
errorChunk(chunk) ==
  [type |-> "error",
   error |-> Obj([type |-> Str("api_error"),
                  message |-> IF chunk.error.inst
                              THEN Get(chunk.error, "message")
                              ELSE chunk.error])]

IgnoredChunkTypes == {"start", "abort", "raw", "source", "file"}

\* a block end that leaves the index where it is
blockEndKeepsIndex(i) == i

\* index += 1 of text-end, tool-input-end, tool-call and reasoning-end
blockEnd(i) == i + 1

\* the index a finish chunk leaves: index = 0
finishIndex(i) == 0

\* transform(chunk, controller) at index i with reasoning buffer buf:
\* the chunks enqueued, the index and buffer left, and whether
\* controller.error was called
transform(chunk, i, buf) ==
  LET result(out, j, b) ==
        [out |-> out, index |-> j, buffer |-> b, errored |-> FALSE]
  IN CASE chunk.type = "start-step" -> result(<<messageStart>>, i, buf)
       [] chunk.type = "finish-step" ->
            result(<<messageDelta(chunk)>>, i, buf)
       [] chunk.type = "finish" ->
            result(<<[type |-> "message_stop"]>>, finishIndex(i), buf)
       [] chunk.type = "text-start" ->
            result(<<blockStart(i, [type |-> "text", text |-> ""])>>, i, buf)
       [] chunk.type = "text-delta" ->
            result(<<blockDelta(i, [type |-> "text_delta",
                                    text |-> chunk.text])>>, i, buf)
       [] chunk.type = "text-end" ->
            result(<<blockStop(i)>>, blockEnd(i), buf)
       [] chunk.type = "tool-input-start" ->
            result(<<blockStart(i, [type |-> "tool_use", id |-> chunk.id,
                                    name |-> chunk.toolName,
                                    input |-> "{}"])>>, i, buf)
       [] chunk.type = "tool-input-delta" ->
            result(<<blockDelta(i, [type |-> "input_json_delta",
                                    partial_json |-> chunk.delta])>>, i, buf)
       [] chunk.type = "tool-input-end" ->
            result(<<blockStop(i)>>, blockEnd(i), buf)
       [] chunk.type = "tool-call" ->
            result(<<blockStart(i, [type |-> "tool_use",
                                    id |-> chunk.toolCallId,
                                    name |-> chunk.toolName,
                                    input |-> chunk.input]),
                     blockStop(i)>>, blockEnd(i), buf)
       [] chunk.type = "error" -> result(<<errorChunk(chunk)>>, i, buf)
       [] chunk.type = "reasoning-start" ->
            result(<<blockStart(i, [type |-> "thinking",
                                    thinking |-> ""])>>, i, <<>>)
       [] chunk.type = "reasoning-delta" ->
            result(<<blockDelta(i, [type |-> "text_delta",
                                    text |-> chunk.text])>>,
                   i, Append(buf, chunk.text))
       [] chunk.type = "reasoning-end" ->
            result(<<blockStop(i)>>, blockEnd(i), <<>>)
       [] chunk.type \in IgnoredChunkTypes -> result(<<>>, i, buf)
       [] OTHER ->
            [out |-> <<>>, index |-> i, buffer |-> buf, errored |-> TRUE]

(***************************************************************************)
(* The driver's stream (streamText's fullStream): start, start-step, the   *)
(* chunks of the step in any order the chunk types allow, finish-step,     *)
(* finish.                                                                 *)
(***************************************************************************)
Usage(input, output, cached) ==
  [inputTokens |-> input, outputTokens |-> output,
   cachedInputTokens |-> cached]

OpenAIMetadata(cached_tokens) ==
  Obj([openai |-> Obj([cached_tokens |-> cached_tokens])])

FinishStep(reason, usage, providerMetadata) ==
  [type |-> "finish-step", finishReason |-> reason, usage |-> usage,
   providerMetadata |-> providerMetadata]

FinishSteps ==
  { FinishStep("stop", Usage(Num(10), Num(5), Undefined), Undefined),
    FinishStep("tool-calls", Usage(Undefined, Undefined, Num(0)),
               OpenAIMetadata(Num(3))),
    FinishStep("length", Usage(Num(10), Num(5), Num(7)),
               OpenAIMetadata(Num(3))),
    FinishStep("content-filter", Usage(Num(10), Undefined, Undefined),
               OpenAIMetadata(Num(3))),
    FinishStep("stop", Usage(Num(10), Num(5), Undefined),
               OpenAIMetadata(Str("3"))),
    FinishStep("stop", Usage(Num(10), Num(5), Num(7)), Undefined) }

BodyChunks ==
  { [type |-> "text-start"],
    [type |-> "text-delta", text |-> "hi"],
    [type |-> "text-end"],
    [type |-> "reasoning-start"],
    [type |-> "reasoning-delta", text |-> "hm"],
    [type |-> "reasoning-end"],
    [type |-> "tool-input-start", id |-> "call_1", toolName |-> "Read"],
    [type |-> "tool-input-delta", delta |-> "{}"],
    [type |-> "tool-input-end"],
    [type |-> "tool-call", toolCallId |-> "call_1", toolName |-> "Read",
     input |-> "in_1"],
    [type |-> "error", error |-> Err("boom")],
    [type |-> "tool-result"] }

\* the errors a driver raises: the provider's error payload as a plain
\* object, nested under error or flat, or an Error instance
DriverErrors ==
  { Obj([error |-> Obj([code |-> Str("server_error"),
                        message |-> Str("m")])]),
    Obj([code |-> Str("server_error")]),
    Obj([error |-> Obj([code |-> Str("rate_limit_exceeded"),
                        type |-> Str("tokens"), message |-> Str("m")])]),
    Obj([error |-> Obj([code |-> Str("rate_limit_exceeded"),
                        type |-> Str("requests")])]),
    Obj([error |-> Obj([code |-> Str("invalid_api_key"),
                        message |-> Str("m")])]),
    Err("boom") }

\* the stream of a request: one text block, a chunk type transform() has
\* no case for, and the request's error
ProxyBodyChunks ==
  { [type |-> "text-start"],
    [type |-> "text-delta", text |-> "hi"],
    [type |-> "text-end"],
    [type |-> "tool-result"] }

ProxyFinishStep ==
  FinishStep("stop", Usage(Num(10), Num(5), Undefined), Undefined)

\* the finish steps of a request, which streamText also reports to
\* onFinish: every counter or none but the output tokens, and each kind of
\* finish reason
FinishEvents ==
  { ProxyFinishStep,
    FinishStep("stop", Usage(Undefined, Num(5), Undefined), Undefined),
    FinishStep("tool-calls", Usage(Num(10), Num(5), Undefined), Undefined),
    FinishStep("length", Usage(Num(10), Num(5), Undefined), Undefined),
    FinishStep("content-filter", Usage(Num(10), Num(5), Undefined),
               Undefined) }

ErrorChunks ==
  IF pc = "idle" THEN {} ELSE {[type |-> "error", error |-> driverError]}

\* the driver has delivered fewer than MaxBody chunks since start-step
BodyRoom ==
  Len(received) - (IF received[1].type = "start" THEN 2 ELSE 1) < MaxBody

\* the chunks the driver may deliver next
DriverNext ==
  CASE dpc = "init" -> {[type |-> "start"], [type |-> "start-step"]}
    [] dpc = "start" -> {[type |-> "start-step"]} \cup ErrorChunks
    [] dpc = "body" ->
         IF pc = "idle"
         THEN FinishSteps \cup (IF BodyRoom THEN BodyChunks ELSE {})
         ELSE FinishEvents \cup ErrorChunks
                \cup (IF BodyRoom THEN ProxyBodyChunks ELSE {})
    [] dpc = "finish-step" -> {[type |-> "finish"]}
    [] OTHER -> {}

\* in a request the stream ends after the error chunk
DriverAfter(chunk) ==
  CASE chunk.type = "start" -> "start"
    [] chunk.type = "start-step" -> "body"
    [] chunk.type = "finish-step" -> "finish-step"
    [] chunk.type = "finish" -> "finish"
    [] chunk.type = "error" /\ pc # "idle" -> "finish"
    [] OTHER -> dpc

StreamIdle ==
  /\ index = 0
  /\ reasoningBuffer = <<>>
  /\ received = <<>>
  /\ emitted = <<>>
  /\ tstate = "idle"
  /\ dpc = "idle"

\* convertToAnthropicStream(stream): let index = 0, reasoningBuffer = ""
StreamInit ==
  /\ index = 0
  /\ reasoningBuffer = <<>>
  /\ received = <<>>
  /\ emitted = <<>>
  /\ tstate = "open"
  /\ dpc = "init"

\* the driver delivers a chunk and transform() runs on it
Transform(chunk) ==
  /\ tstate = "open"
  /\ chunk \in DriverNext
  /\ LET r == transform(chunk, index, reasoningBuffer)
     IN /\ index' = r.index
        /\ reasoningBuffer' = r.buffer
        /\ emitted' = emitted \o r.out
        /\ tstate' = IF r.errored THEN "errored" ELSE "open"
  /\ received' = Append(received, chunk)
  /\ dpc' = DriverAfter(chunk)

\* the driver's stream ends and pipeTo closes the transform
StreamClose ==
  /\ tstate = "open"
  /\ dpc = "finish"
  /\ tstate' = "closed"
  /\ UNCHANGED <<index, reasoningBuffer, received, emitted, dpc>>

(***************************************************************************)
(* The /v1/messages handler of createAnthropicProxy (anthropic-proxy.ts),  *)
(* from the call of streamText on: one request, whose model prefix named   *)
(* a registered provider.                                                  *)
(***************************************************************************)
None == [t |-> "none"]

\* http.ServerResponse: statusCode is 200 until a head sets it
NewResponse ==
  [headersSent |-> FALSE, statusCode |-> 200, contentType |-> "",
   ended |-> FALSE, body |-> <<>>]

\* res.writeHead(status, {"Content-Type": type}), the head not yet sent
writeHead(r, status, type) ==
  [r EXCEPT !.headersSent = TRUE, !.statusCode = status,
            !.contentType = type]

\* res.write(data): sends the implicit head first; dropped after end()
resWrite(r, data) ==
  IF r.ended THEN r
  ELSE [r EXCEPT !.headersSent = TRUE, !.body = Append(@, data)]

\* res.end(data)
resEnd(r, data) ==
  IF r.ended THEN r
  ELSE [r EXCEPT !.headersSent = TRUE, !.ended = TRUE, !.body = @ \o data]

Json(value) == [kind |-> "json", data |-> value]
Sse(chunk) == [kind |-> "sse", event |-> chunk.type, data |-> chunk]

OverloadedError ==
  Obj([type |-> Str("error"),
       error |-> Obj([type |-> Str("overloaded_error"),
                      message |-> Str("unavailable")])])

\* convertProviderErrorToAnthropic(chunk, providerName, model)
convertProviderErrorToAnthropic(chunk, provider) ==
  LET isOpenAIServerError ==
        /\ provider = "openai"
        /\ Get(chunk.error, "code") = Str("server_error")
      isOpenAIRateLimitError ==
        /\ provider = "openai"
        /\ Get(Get(Get(chunk.error, "message"), "error"), "code")
             = Str("rate_limit_exceeded")
        /\ Get(Get(Get(chunk.error, "message"), "error"), "type")
             = Str("tokens")
  IN IF isOpenAIServerError
     THEN [converted |->
             [type |-> "error",
              error |-> Obj([type |-> Str("rate_limit_error"),
                             code |-> Str("rate_limit_error"),
                             message |-> Str("retry")])],
           wasConverted |-> TRUE, errorType |-> "server_error"]
     ELSE IF isOpenAIRateLimitError
     THEN [converted |->
             [type |-> "error",
              error |-> Obj([type |-> Str("request_too_large"),
                             message |-> Str("too large")])],
           wasConverted |-> TRUE, errorType |-> "rate_limit_context"]
     ELSE [converted |-> chunk, wasConverted |-> FALSE,
           errorType |-> "other"]

\* "error" in error && error.error?.code === code, of onError
hasErrorCode(error, code) ==
  /\ error.t = "object"
  /\ "error" \in DOMAIN error.f
  /\ Get(Get(error, "error"), "code") = Str(code)

\* onError's statusCode and transformedError
onErrorTransform(error, provider) ==
  IF provider = "openai" /\ hasErrorCode(error, "server_error")
  THEN [statusCode |-> 429,
        transformedError |->
          Obj([type |-> Str("error"),
               error |-> Obj([type |-> Str("rate_limit_error"),
                              message |-> Str("retry")])])]
  ELSE IF provider = "openai" /\ hasErrorCode(error, "rate_limit_exceeded")
  THEN [statusCode |-> 429,
        transformedError |->
          Obj([type |-> Str("error"),
               error |-> Obj([type |-> Str("rate_limit_error"),
                              message |->
                                IF Get(Get(error, "error"), "message")
                                     = Undefined
                                THEN Str("Rate limit exceeded")
                                ELSE Get(Get(error, "error"), "message")])])]
  ELSE [statusCode |-> 400, transformedError |-> error]

\* the body onError sends: { type: "error", error: transformedError
\*   instanceof Error ? transformedError.message : transformedError }
onErrorBody(transformedError) ==
  Obj([type |-> Str("error"),
       error |-> IF transformedError.inst
                 THEN Get(transformedError, "message")
                 ELSE transformedError])

\* the message streamText reports to onFinish
ResponseMessage ==
  Message("assistant", <<TextPart(<<"o", "k">>, NoCacheControl)>>,
          NoCacheControl)

\* the JSON onFinish sends for a request that is not streamed
onFinishBody(finishStep) ==
  LET promptMessage ==
        convertToAnthropicMessagesPrompt(<<ResponseMessage>>, TRUE).messages[1]
  IN [id |-> "msg_now", type |-> "message", role |-> promptMessage.role,
      content |-> promptMessage.content,
      model |-> "body.model",
      stop_reason |-> mapAnthropicStopReason(finishStep.finishReason),
      stop_sequence |-> "null",
      usage |-> [input_tokens |-> finishStep.usage.inputTokens,
                 output_tokens |-> finishStep.usage.outputTokens,
                 cache_creation_input_tokens |-> Num(0),
                 cache_read_input_tokens |-> cacheRead(finishStep)]]

Providers == {"openai", "google"}

ProxyIdle ==
  /\ pc = "idle"
  /\ providerName = "none"
  /\ bodyStream = FALSE
  /\ res = NewResponse
  /\ nwritten = 0
  /\ onErrorArg = None
  /\ driverError = None
  /\ onErrorOutcome = None
  /\ conversion = None
  /\ rewrites = 0
  /\ thrown = None

ProxyInit ==
  /\ pc = "streamText"
  /\ providerName \in Providers
  /\ bodyStream \in BOOLEAN
  /\ res = NewResponse
  /\ nwritten = 0
  /\ onErrorArg = None
  /\ driverError \in DriverErrors
  /\ onErrorOutcome = None
  /\ conversion = None
  /\ rewrites = 0
  /\ thrown = None

requestVars == <<providerName, bodyStream, driverError, thrown>>

\* stream = streamText({...}) returns the stream
StreamText ==
  /\ pc = "streamText"
  /\ pc' = IF bodyStream THEN "piping" ELSE "consuming"
  /\ UNCHANGED <<res, nwritten, onErrorArg, onErrorOutcome, conversion,
                 rewrites>>
  /\ UNCHANGED requestVars
  /\ UNCHANGED streamVars

\* streamText throws: the catch answers 503 and returns
StreamTextThrows ==
  /\ pc = "streamText"
  /\ res' = resEnd(writeHead(res, 503, "application/json"),
                   <<Json(OverloadedError)>>)
  /\ pc' = "done"
  /\ UNCHANGED <<nwritten, onErrorArg, onErrorOutcome, conversion, rewrites>>
  /\ UNCHANGED requestVars
  /\ UNCHANGED streamVars

\* a chunk of stream.fullStream passes through convertToAnthropicStream;
\* streamText hands the error of an error chunk to onError
Pipe(chunk) ==
  /\ pc = "piping"
  /\ onErrorArg = None
  /\ Transform(chunk)
  /\ onErrorArg' = IF chunk.type = "error" THEN chunk.error ELSE onErrorArg
  /\ UNCHANGED <<pc, res, nwritten, onErrorOutcome, conversion, rewrites>>
  /\ UNCHANGED requestVars

\* the onError callback of streamText
OnError ==
  /\ onErrorArg # None
  /\ LET t == onErrorTransform(onErrorArg, providerName)
     IN /\ onErrorOutcome' = [t |-> "outcome", statusCode |-> t.statusCode,
                              body |-> onErrorBody(t.transformedError)]
        /\ IF res.headersSent
           THEN /\ rewrites' = rewrites + 1
                /\ res' = res
           ELSE /\ rewrites' = rewrites
                /\ res' = resEnd(writeHead(res, t.statusCode,
                                           "application/json"),
                                 <<Json(onErrorBody(t.transformedError))>>)
  /\ onErrorArg' = None
  /\ UNCHANGED <<pc, nwritten, conversion>>
  /\ UNCHANGED requestVars
  /\ UNCHANGED streamVars

\* write(chunk) of the WritableStream the converted stream is piped to
Write ==
  /\ pc = "piping"
  /\ tstate # "errored"
  /\ nwritten < Len(emitted)
  /\ LET chunk == emitted[nwritten + 1]
     IN IF chunk.type = "error"
        THEN /\ onErrorArg = None
             /\ LET errorConversion ==
                      convertProviderErrorToAnthropic(chunk, providerName)
                IN /\ conversion' = errorConversion
                   /\ res' = resWrite(res, Sse(errorConversion.converted))
        ELSE /\ conversion' = conversion
             /\ res' = resWrite(res, Sse(chunk))
  /\ nwritten' = nwritten + 1
  /\ UNCHANGED <<pc, onErrorArg, onErrorOutcome, rewrites>>
  /\ UNCHANGED requestVars
  /\ UNCHANGED streamVars

\* the driver's stream ends
PipeEnd ==
  /\ pc = "piping"
  /\ onErrorArg = None
  /\ StreamClose
  /\ UNCHANGED proxyVars

\* close() of the WritableStream returning without res.end()
CloseWithoutEnd ==
  /\ pc = "piping"
  /\ tstate = "closed"
  /\ nwritten = Len(emitted)
  /\ pc' = "done"
  /\ UNCHANGED <<res, nwritten, onErrorArg, onErrorOutcome, conversion,
                 rewrites>>
  /\ UNCHANGED requestVars
  /\ UNCHANGED streamVars

\* close() of the WritableStream: res.end()
Close ==
  /\ pc = "piping"
  /\ tstate = "closed"
  /\ nwritten = Len(emitted)
  /\ res' = resEnd(res, <<>>)
  /\ pc' = "done"
  /\ UNCHANGED <<nwritten, onErrorArg, onErrorOutcome, conversion, rewrites>>
  /\ UNCHANGED requestVars
  /\ UNCHANGED streamVars

\* pipeTo rejects (the stream failed, or transform() called
\* controller.error): the catch around the pipe
PipeFails ==
  /\ pc = "piping"
  /\ tstate \in {"open", "errored"}
  /\ res' = IF ~res.headersSent
            THEN resEnd(writeHead(res, 503, "application/json"),
                        <<Json(OverloadedError)>>)
            ELSE resEnd(resWrite(res,
                          [kind |-> "sse", event |-> "error",
                           data |-> [type |-> "error",
                                     error |-> Get(OverloadedError,
                                                   "error")]]),
                        <<>>)
  /\ pc' = "done"
  /\ tstate' = "errored"
  /\ UNCHANGED <<nwritten, onErrorArg, onErrorOutcome, conversion, rewrites>>
  /\ UNCHANGED requestVars
  /\ UNCHANGED <<index, reasoningBuffer, received, emitted, dpc>>

\* consumeStream() meets the driver's error: streamText calls onError
ConsumeError ==
  /\ pc = "consuming"
  /\ dpc = "init"
  /\ onErrorArg' = driverError
  /\ dpc' = "finish"
  /\ UNCHANGED <<pc, res, nwritten, onErrorOutcome, conversion, rewrites>>
  /\ UNCHANGED requestVars
  /\ UNCHANGED <<index, reasoningBuffer, received, emitted, tstate>>

\* the onFinish callback of streamText, for a request that is not streamed
OnFinish ==
  /\ pc = "consuming"
  /\ dpc = "init"
  /\ dpc' = "finish"
  /\ IF res.headersSent
     THEN /\ rewrites' = rewrites + 1
          /\ res' = res
          /\ received' = received
     ELSE /\ rewrites' = rewrites
          /\ \E finishEvent \in FinishEvents :
               /\ received' = Append(received, finishEvent)
               /\ res' = resEnd(writeHead(res, 200, "application/json"),
                                <<Json(onFinishBody(finishEvent))>>)
  /\ UNCHANGED <<pc, nwritten, onErrorArg, onErrorOutcome, conversion>>
  /\ UNCHANGED requestVars
  /\ UNCHANGED <<index, reasoningBuffer, emitted, tstate>>

\* await stream.consumeStream() resolves: return
ConsumeDone ==
  /\ pc = "consuming"
  /\ dpc = "finish"
  /\ onErrorArg = None
  /\ pc' = "done"
  /\ UNCHANGED <<res, nwritten, onErrorArg, onErrorOutcome, conversion,
                 rewrites>>
  /\ UNCHANGED requestVars
  /\ UNCHANGED streamVars

\* the server takes the next request once the handler has returned; its
\* call of convertToAnthropicStream declares its own index and
\* reasoningBuffer
NextRequest ==
  /\ pc = "done"
  /\ earlier' = [index |-> index, reasoningBuffer |-> reasoningBuffer]
  /\ pc' = "streamText"
  /\ res' = NewResponse
  /\ nwritten' = 0
  /\ onErrorArg' = None
  /\ onErrorOutcome' = None
  /\ conversion' = None
  /\ rewrites' = 0
  /\ UNCHANGED requestVars
  /\ index' = 0
  /\ reasoningBuffer' = <<>>
  /\ received' = <<>>
  /\ emitted' = <<>>
  /\ tstate' = "open"
  /\ dpc' = "init"

\* what res.writeHead throws once the head was sent
HeadersSentError == Err("Cannot write headers after they are sent")

\* the body of the handler's .catch: "Internal server error: " + err.message
InternalServerError(err) ==
  Obj([error |-> Concat(Str("Internal server error: "),
                        Get(err, "message"))])

\* await stream.consumeStream() rejects: the catch answers 503; a head
\* already sent makes writeHead throw out of the handler
ConsumeFails ==
  /\ pc = "consuming"
  /\ onErrorArg = None
  /\ IF res.headersSent
     THEN /\ rewrites' = rewrites + 1
          /\ res' = res
          /\ pc' = "rejected"
          /\ thrown' = HeadersSentError
     ELSE /\ rewrites' = rewrites
          /\ res' = resEnd(writeHead(res, 503, "application/json"),
                           <<Json(OverloadedError)>>)
          /\ pc' = "done"
          /\ thrown' = thrown
  /\ UNCHANGED <<nwritten, onErrorArg, onErrorOutcome, conversion>>
  /\ UNCHANGED <<providerName, bodyStream, driverError>>
  /\ UNCHANGED streamVars

\* the .catch of the handler: res.writeHead(500, ...)
HandlerCatch ==
  /\ pc = "rejected"
  /\ IF res.headersSent
     THEN /\ rewrites' = rewrites + 1
          /\ res' = res
     ELSE /\ rewrites' = rewrites
          /\ res' = resEnd(writeHead(res, 500, "application/json"),
                           <<Json(InternalServerError(thrown))>>)
  /\ pc' = "done"
  /\ UNCHANGED <<nwritten, onErrorArg, onErrorOutcome, conversion>>
  /\ UNCHANGED requestVars
  /\ UNCHANGED streamVars

(***************************************************************************)
(* The routing of a request: the createServer callback up to the call of   *)
(* streamText.  A model name and a url are sequences of pieces; the piece  *)
(* "/" of a model name is its separator.                                   *)
(***************************************************************************)
\* s.split(sep)
RECURSIVE Split(_, _)
Split(s, sep) ==
  IF s = <<>> THEN << <<>> >>
  ELSE LET rest == Split(Tail(s), sep)
       IN IF Head(s) = sep THEN << <<>> >> \o rest
          ELSE << <<Head(s)>> \o Head(rest) >> \o Tail(rest)

\* url.startsWith(prefix)
StartsWith(url, prefix) ==
  Len(url) >= Len(prefix) /\ SubSeq(url, 1, Len(prefix)) = prefix

MessagesPath == <<"v1", "messages">>

\* convertFromAnthropicMessages: one content block of a message
fromContent(acc, content) ==
  CASE acc.threw -> acc
    [] content.type = "text" ->
         [acc EXCEPT !.messageContent =
            Append(@, [type |-> "text", text |-> content.text])]
    [] content.type = "tool_use" ->
         LET call == [type |-> "tool-call", input |-> content.input,
                      toolCallId |-> content.id, toolName |-> content.name]
         IN [acc EXCEPT !.messageContent = Append(@, call),
                        !.toolCalls = content.id :> call @@ @]
    [] content.type = "tool_result" ->
         IF content.tool_use_id \notin DOMAIN acc.toolCalls
         THEN [acc EXCEPT !.threw = TRUE]
         ELSE [acc EXCEPT !.result =
                 Append(@, [role |-> "tool",
                            content |->
                              <<[type |-> "tool-result",
                                 output |-> [type |-> "text",
                                             value |-> content.content],
                                 toolCallId |-> content.tool_use_id,
                                 toolName |->
                                   acc.toolCalls[content.tool_use_id]
                                     .toolName]>>])]
    [] OTHER -> acc

RECURSIVE fromContents(_, _)
fromContents(acc, contents) ==
  IF contents = <<>> THEN acc
  ELSE fromContents(fromContent(acc, Head(contents)), Tail(contents))

\* convertFromAnthropicMessages: one message
fromMessage(acc, message) ==
  IF acc.threw THEN acc
  ELSE LET start == [acc EXCEPT !.messageContent = <<>>]
           done ==
             IF message.content.t = "string"
             THEN [start EXCEPT !.messageContent =
                     <<[type |-> "text", text |-> message.content.s]>>]
             ELSE fromContents(start, message.content.blocks)
       IN IF done.threw \/ done.messageContent = <<>> THEN done
          ELSE [done EXCEPT !.result =
                  Append(@, [role |-> message.role,
                             content |-> done.messageContent])]

RECURSIVE fromMessages(_, _)
fromMessages(acc, messages) ==
  IF messages = <<>> THEN acc
  ELSE fromMessages(fromMessage(acc, Head(messages)), Tail(messages))

\* convertFromAnthropicMessages(messages): the messages, or the throw of
\* "Tool call not found"
convertFromAnthropicMessages(messages) ==
  LET done == fromMessages([result |-> <<>>, toolCalls |-> <<>>,
                            messageContent |-> <<>>, threw |-> FALSE],
                           messages)
  IN [threw |-> done.threw, result |-> done.result]

\* an Anthropic message whose content is a list of blocks
Blocks(role, blocks) ==
  [role |-> role, content |-> [t |-> "blocks", blocks |-> blocks]]

ToolUse(id) ==
  [type |-> "tool_use", id |-> id, name |-> "Read", input |-> "in_1"]
ToolResult(id) ==
  [type |-> "tool_result", tool_use_id |-> id, content |-> "out"]

\* the message lists of the requests explored
RequestMessages ==
  { <<[role |-> "user", content |-> Str("hi")]>>,
    <<Blocks("assistant", <<ToolUse("call_1")>>),
      Blocks("user", <<ToolResult("call_1")>>)>>,
    <<Blocks("user", <<ToolResult("call_9")>>)>>,
    <<Blocks("user", <<ToolResult("call_1")>>),
      Blocks("assistant", <<ToolUse("call_1")>>)>> }

\* the model names of the requests explored
RequestModels ==
  { <<"claude">>, <<"openai", "/", "gpt">>,
    <<"openai", "/", "a", "/", "b">>, <<"nope", "/", "x">> }

RequestUrls ==
  { MessagesPath, <<"v1", "messages", "count_tokens">>, <<"v1", "models">> }

\* a body that is JSON, and one that is not (an empty body is not)
JsonBodies ==
  [json : {TRUE}, model : RequestModels, messages : RequestMessages,
   stream : {TRUE}]
NoJson == [json |-> FALSE]

\* the requests explored: a GET carries no body
Requests ==
  [method : {"POST"}, url : RequestUrls,
   headers : {{"host", "x-api-key"}}, body : JsonBodies \cup {NoJson}]
  \cup [method : {"GET"}, url : RequestUrls,
        headers : {{"host", "x-api-key"}}, body : {NoJson}]

\* the answers of api.anthropic.com explored
UpstreamResponses ==
  { [statusCode |-> 200, contentType |-> "application/json"],
    [statusCode |-> 404, contentType |-> "text/plain"] }

RouteIdle ==
  /\ providers = {}
  /\ req = None
  /\ model = None
  /\ upstream = None
  /\ alive = TRUE

RouteInit ==
  /\ providers \in {{<<"openai">>}, {<<"openai">>, <<"anthropic">>}}
  /\ req \in Requests
  /\ model = None
  /\ upstream = None
  /\ alive = TRUE

\* proxyToAnthropic(body): the request sent to api.anthropic.com
proxyToAnthropic(body) ==
  [host |-> "api.anthropic.com", path |-> req.url, method |-> req.method,
   headers |-> req.headers \ {"host"},
   body |-> IF body = None THEN [from |-> "request", body |-> req.body]
            ELSE [from |-> "JSON.stringify", body |-> body]]

\* a url that does not start with /v1/messages: proxyToAnthropic()
RouteProxy ==
  /\ pc = "request"
  /\ ~StartsWith(req.url, MessagesPath)
  /\ upstream' = proxyToAnthropic(None)
  /\ pc' = "proxied"
  /\ UNCHANGED <<providers, req, model, alive>>
  /\ UNCHANGED <<res, nwritten, onErrorArg, onErrorOutcome, conversion,
                 rewrites>>
  /\ UNCHANGED requestVars

\* the answer of api.anthropic.com: res.writeHead(statusCode, headers) and
\* the piped body
UpstreamResponds(proxiedRes) ==
  /\ pc = "proxied"
  /\ res' = resEnd(writeHead(res, proxiedRes.statusCode,
                             proxiedRes.contentType),
                   <<[kind |-> "upstream"]>>)
  /\ pc' = "done"
  /\ UNCHANGED routeVars
  /\ UNCHANGED <<nwritten, onErrorArg, onErrorOutcome, conversion, rewrites>>
  /\ UNCHANGED requestVars

\* the body is read: JSON.parse runs in the "end" listener of the request,
\* where its throw is an uncaught exception of the process
ReadBody ==
  /\ pc = "request"
  /\ StartsWith(req.url, MessagesPath)
  /\ IF req.body.json
     THEN pc' = "parsed" /\ alive' = alive
     ELSE pc' = "crashed" /\ alive' = FALSE
  /\ UNCHANGED <<providers, req, model, upstream>>
  /\ UNCHANGED <<res, nwritten, onErrorArg, onErrorOutcome, conversion,
                 rewrites>>
  /\ UNCHANGED requestVars

\* body.model.split("/") and the choice of the driver
SplitModel ==
  /\ pc = "parsed"
  /\ LET modelParts == Split(req.body.model, "/")
     IN IF Len(modelParts) = 1
        THEN IF <<"anthropic">> \in providers
             THEN /\ providerName' = <<"anthropic">>
                  /\ model' = modelParts[1]
                  /\ upstream' = upstream
                  /\ pc' = "returned"
             ELSE /\ upstream' = proxyToAnthropic(req.body)
                  /\ pc' = "proxied"
                  /\ UNCHANGED <<providerName, model>>
        ELSE /\ providerName' = modelParts[1]
             /\ model' = modelParts[2]
             /\ upstream' = upstream
             /\ pc' = "lookup"
  /\ UNCHANGED <<providers, req, alive>>
  /\ UNCHANGED <<res, nwritten, onErrorArg, onErrorOutcome, conversion,
                 rewrites, bodyStream, driverError, thrown>>

\* providers[providerName], and the throw for a name not registered
LookupProvider ==
  /\ pc = "lookup"
  /\ IF providerName \in providers
     THEN pc' = "convert" /\ thrown' = thrown
     ELSE /\ pc' = "rejected"
          /\ thrown' = [t |-> "object", inst |-> TRUE,
                        f |-> [message |->
                                 Concat(Str("Unknown provider: "),
                                        Str(providerName))]]
  /\ UNCHANGED routeVars
  /\ UNCHANGED <<res, nwritten, onErrorArg, onErrorOutcome, conversion,
                 rewrites, providerName, bodyStream, driverError>>

\* convertFromAnthropicMessages(body.messages), up to the call of
\* streamText
ConvertMessages ==
  /\ pc = "convert"
  /\ IF convertFromAnthropicMessages(req.body.messages).threw
     THEN /\ pc' = "rejected"
          /\ thrown' = Err("Tool call not found")
          /\ bodyStream' = bodyStream
     ELSE /\ pc' = "streamText"
          /\ thrown' = thrown
          /\ bodyStream' = req.body.stream
  /\ UNCHANGED routeVars
  /\ UNCHANGED <<res, nwritten, onErrorArg, onErrorOutcome, conversion,
                 rewrites, providerName, driverError>>

(***************************************************************************)
(* The client of a request goes away.  No listener of the handler hears    *)
(* of it: the request continues as before.                                 *)
(***************************************************************************)
AbortIdle == aborted = None

ClientAbort ==
  /\ aborted = None
  /\ pc \in {"piping", "consuming"}
  /\ dpc \notin {"finish"}
  /\ aborted' = [t |-> "aborted", received |-> Len(received),
                 nwritten |-> nwritten]
  /\ UNCHANGED proxyVars
  /\ UNCHANGED streamVars

(***************************************************************************)
(* providerizeSchema (json-schema.ts).  A schema object carries every      *)
(* keyword the function reads; a keyword that is absent is Undefined       *)
(* (format: "none").                                                       *)
(***************************************************************************)
Bool(b) == [t |-> "boolean", v |-> b]

SchemaObject(type, format, properties, items, required, additional) ==
  [t |-> "schema", type |-> type, format |-> format,
   properties |-> properties, items |-> items, required |-> required,
   additionalProperties |-> additional]

Properties(f) == [t |-> "properties", f |-> f]

\* !schema.additionalProperties, negated where the code tests === undefined
additionalPropertiesNegated(s) ==
  IF s.additionalProperties = Undefined THEN Bool(TRUE)
  ELSE Bool(~s.additionalProperties.v)

\* the additionalProperties of the result, for openai
additionalPropertiesFor(s) ==
  IF s.additionalProperties = Undefined THEN Bool(FALSE)
  ELSE s.additionalProperties

\* the property without its format when that is "uri", for openai and google
withoutUriFormat(p, property) ==
  IF p \in {"openai", "google"} /\ property.format = "uri"
  THEN [property EXCEPT !.format = "none"]
  ELSE property

RECURSIVE providerizeSchema(_, _)
\* the body of the loop over Object.entries(schema.properties)
processProperty(p, property) ==
  IF property.t # "schema" THEN property
  ELSE LET processedProperty == withoutUriFormat(p, property)
           items == processedProperty.items
       IN CASE processedProperty.type = "object" ->
                 providerizeSchema(p, processedProperty)
            [] processedProperty.type = "array" /\ items # Undefined ->
                 IF items.t = "schema" /\ items.type = "object"
                 THEN [processedProperty EXCEPT
                         !.items = providerizeSchema(p, items)]
                 ELSE processedProperty
            [] OTHER -> processedProperty

providerizeSchema(p, s) ==
  IF s.t # "schema" \/ s.type # "object" \/ s.properties = Undefined
  THEN s
  ELSE LET processedProperties ==
             [key \in DOMAIN s.properties.f |->
                processProperty(p, s.properties.f[key])]
           result == [s EXCEPT !.properties = Properties(processedProperties)]
       IN IF p = "openai"
          THEN [result EXCEPT
                  !.additionalProperties = additionalPropertiesFor(s)]
          ELSE result

\* the schemas explored
StringSchema(format) ==
  SchemaObject("string", format, Undefined, Undefined, Undefined, Undefined)

SchemaLeaves ==
  { StringSchema("none"), StringSchema("uri"), StringSchema("date-time"),
    SchemaObject("object", "none", Undefined, Undefined, Undefined,
                 Undefined),
    SchemaObject("object", "uri", Undefined, Undefined, Undefined,
                 Undefined),
    SchemaObject("array", "none", Undefined,
                 [t |-> "tuple", v |-> <<StringSchema("uri")>>],
                 Undefined, Undefined),
    Bool(TRUE) }

RequiredU == [t |-> "array", v |-> <<"u">>]

RECURSIVE SchemasUpTo(_)
SchemasUpTo(depth) ==
  IF depth = 0 THEN SchemaLeaves
  ELSE LET sub == SchemasUpTo(depth - 1)
       IN sub
          \cup { SchemaObject("object", "none", Properties(f), Undefined,
                              required, additional) :
                   f \in { [u |-> c] : c \in sub }
                         \cup { [u |-> c, v |-> StringSchema("uri")] :
                                c \in sub },
                   required \in {Undefined, RequiredU},
                   additional \in {Undefined, Bool(TRUE)} }
          \cup { SchemaObject("object", "uri", Properties([u |-> c]),
                              Undefined, Undefined, Undefined) : c \in sub }
          \cup { SchemaObject("array", "none", Undefined, c, Undefined,
                              Undefined) : c \in sub }

(***************************************************************************)
(* providerizeSchema on objects with identity.  A schema node is an object *)
(* of the list objects and is named by a reference to its place in the     *)
(* list; the values of properties and a single-schema items hold           *)
(* references.  A spread or an object literal appends an object; delete    *)
(* and an assignment write the object they are applied to.                 *)
(***************************************************************************)
Ref(id) == [t |-> "ref", id |-> id]

\* Object.entries(properties): the keys in insertion order
PropertyKeys(f) == SelectSeq(<<"u", "v">>, LAMBDA key : key \in DOMAIN f)

\* the caller builds a schema: its nested nodes first, then the node
RECURSIVE storeNode(_, _)
RECURSIVE storeProperties(_, _, _, _)
storeProperties(acc, f, keys, i) ==
  IF i > Len(keys) THEN acc
  ELSE LET r == storeNode(acc.objects, f[keys[i]])
       IN storeProperties([objects |-> r.objects,
                           f |-> acc.f @@ (keys[i] :> r.ref)],
                          f, keys, i + 1)

storeNode(objects, value) ==
  IF value.t # "schema" THEN [objects |-> objects, ref |-> value]
  ELSE LET props ==
             IF value.properties = Undefined
             THEN [objects |-> objects, properties |-> Undefined]
             ELSE LET r == storeProperties([objects |-> objects, f |-> <<>>],
                                           value.properties.f,
                                           PropertyKeys(value.properties.f),
                                           1)
                  IN [objects |-> r.objects, properties |-> Properties(r.f)]
           items == IF value.items = Undefined
                    THEN [objects |-> props.objects, ref |-> Undefined]
                    ELSE storeNode(props.objects, value.items)
           node == [value EXCEPT !.properties = props.properties,
                                 !.items = items.ref]
       IN [objects |-> Append(items.objects, node),
           ref |-> Ref(Len(items.objects) + 1)]

\* the caller's schema as objects; schema names the argument of the next
\* call
storeSchema(value) ==
  LET r == storeNode(<<>>, value)
  IN [objects |-> r.objects, schema |-> r.ref]

\* the schema a reference names, read from the objects
RECURSIVE readNode(_, _)
readNode(objects, ref) ==
  IF ref.t # "ref" THEN ref
  ELSE LET node == objects[ref.id]
       IN [node EXCEPT
             !.properties =
               IF @ = Undefined THEN Undefined
               ELSE Properties([key \in DOMAIN @.f |->
                                  readNode(objects, @.f[key])]),
             !.items = IF @ = Undefined THEN Undefined
                       ELSE readNode(objects, @)]

\* processedProperty = processedProperty, with no new object
sameObject(objects, ref) == [objects |-> objects, ref |-> ref]

\* { ...processedProperty }
copyObject(objects, ref) ==
  [objects |-> Append(objects, objects[ref.id]),
   ref |-> Ref(Len(objects) + 1)]

\* delete processedProperty.format
deleteFormat(objects, ref) == [objects EXCEPT ![ref.id].format = "none"]

RECURSIVE providerizeObject(_, _, _)
\* the body of the loop over Object.entries(schema.properties), for a
\* property that is an object
processPropertyObject(p, objects, property) ==
  LET copied == IF p \in {"openai", "google"}
                     /\ objects[property.id].format = "uri"
                THEN LET c == copyObject(objects, property)
                     IN [objects |-> deleteFormat(c.objects, c.ref),
                         ref |-> c.ref]
                ELSE [objects |-> objects, ref |-> property]
      processedProperty == copied.objects[copied.ref.id]
      items == processedProperty.items
  IN CASE processedProperty.type = "object" ->
            providerizeObject(p, copied.objects, copied.ref)
       [] processedProperty.type = "array" /\ items # Undefined ->
            IF items.t = "ref" /\ copied.objects[items.id].type = "object"
            THEN LET r == providerizeObject(p, copied.objects, items)
                 IN [objects |->
                       Append(r.objects,
                              [processedProperty EXCEPT !.items = r.ref]),
                     ref |-> Ref(Len(r.objects) + 1)]
            ELSE copied
       [] OTHER -> copied

RECURSIVE processEntries(_, _, _, _, _)
\* the loop over Object.entries(schema.properties), from entry i on
processEntries(p, acc, f, keys, i) ==
  IF i > Len(keys) THEN acc
  ELSE LET property == f[keys[i]]
           r == IF property.t = "ref"
                THEN processPropertyObject(p, acc.objects, property)
                ELSE [objects |-> acc.objects, ref |-> property]
       IN processEntries(p, [objects |-> r.objects,
                             f |-> acc.f @@ (keys[i] :> r.ref)],
                         f, keys, i + 1)

\* providerizeSchema(provider, schema) for the schema a reference names:
\* the objects after the call and the reference returned
providerizeObject(p, objects, ref) ==
  IF ref.t # "ref" THEN [objects |-> objects, ref |-> ref]
  ELSE LET s == objects[ref.id]
       IN IF s.type # "object" \/ s.properties = Undefined
          THEN [objects |-> objects, ref |-> ref]
          ELSE LET done == processEntries(p, [objects |-> objects,
                                              f |-> <<>>],
                                          s.properties.f,
                                          PropertyKeys(s.properties.f), 1)
                   result == [s EXCEPT !.properties = Properties(done.f)]
                   returned ==
                     IF p = "openai"
                     THEN [result EXCEPT
                             !.additionalProperties =
                               additionalPropertiesFor(s)]
                     ELSE result
               IN [objects |-> Append(done.objects, returned),
                   ref |-> Ref(Len(done.objects) + 1)]

\* a call of providerizeSchema on the schema named last: the caller's
\* schema, then the result of the call before
providerizeCall(p, h) ==
  LET r == providerizeObject(p, h.objects, h.schema)
  IN [objects |-> r.objects, schema |-> r.ref]

SchemaProviders == {"openai", "google", "anthropic"}

SchemaIdle ==
  /\ schemaProvider = "none"
  /\ schema = None
  /\ adapted = None
  /\ readapted = None
  /\ heap = None

SchemaInit ==
  /\ schemaProvider \in SchemaProviders
  /\ schema \in SchemasUpTo(MaxSchemaDepth)
  /\ adapted = None
  /\ readapted = None
  /\ heap = storeSchema(schema)

\* providerizeSchema(provider, schema)
Adapt ==
  /\ adapted = None
  /\ adapted' = providerizeSchema(schemaProvider, schema)
  /\ heap' = providerizeCall(schemaProvider, heap)
  /\ UNCHANGED <<schemaProvider, schema, readapted>>

\* providerizeSchema(provider, providerizeSchema(provider, schema))
Readapt ==
  /\ adapted # None
  /\ readapted = None
  /\ readapted' = providerizeSchema(schemaProvider, adapted)
  /\ heap' = providerizeCall(schemaProvider, heap)
  /\ UNCHANGED <<schemaProvider, schema, adapted>>

(***************************************************************************)
(* convertToLanguageModelMessage (convert-to-language-model-prompt.ts) and *)
(* the path of a message from the Anthropic format to the neutral format   *)
(* and back: convertFromAnthropicMessages, convertToLanguageModelMessage,  *)
(* convertToAnthropicMessagesPrompt.  The parts convertFromAnthropic-      *)
(* Messages builds carry no providerOptions.                               *)
(***************************************************************************)
\* the part pushed on assistantParts for one part of an assistant message
languageModelPart(part) ==
  CASE part.type = "file" ->
         FilePart(part.mediaType, part.data, NoCacheControl)
    [] part.type = "reasoning" -> ReasoningPart(part.text, NoCacheControl)
    [] part.type = "text" -> TextPart(part.text, NoCacheControl)
    [] part.type = "tool-call" ->
         ToolCallPart(part.toolCallId, part.toolName, part.input,
                      NoCacheControl)

\* convertToLanguageModelMessage(message, {}) for an assistant message whose
\* content is a list of parts: empty text parts and tool-result parts are
\* left out
convertToLanguageModelMessage(message) ==
  LET kept == SelectSeq(message.content,
                LAMBDA part : /\ ~(part.type = "text" /\ part.text = <<>>)
                              /\ part.type # "tool-result")
  IN Message("assistant",
             [k \in 1..Len(kept) |-> languageModelPart(kept[k])],
             NoCacheControl)

\* the content blocks of the Anthropic messages explored
TextBlock(text) == [type |-> "text", text |-> text]

InboundBlocks ==
  { TextBlock(<<" ", "b", " ">>), TextBlock(<<>>), TextBlock(<<" ">>),
    ToolUse("call_1"), ToolResult("call_1"),
    [type |-> "image",
     source |-> [type |-> "base64", media_type |-> "image/png",
                 data |-> "d"]],
    [type |-> "document",
     source |-> [type |-> "url", url |-> "https://h/f.pdf"]],
    [type |-> "thinking", thinking |-> <<"r">>, signature |-> "s"],
    [type |-> "redacted_thinking", data |-> "x"] }

RECURSIVE CountBlocks(_)
CountBlocks(messages) ==
  IF messages = <<>> THEN 0
  ELSE Len(Head(messages).content.blocks) + CountBlocks(Tail(messages))

ParseIdle ==
  /\ inbound = <<>>
  /\ neutral = None
  /\ rendered = None

\* the client appends a message to body.messages
AddInbound(role) ==
  /\ neutral = None
  /\ Len(inbound) < MaxTurns
  /\ inbound' = Append(inbound, Blocks(role, <<>>))
  /\ UNCHANGED <<neutral, rendered>>

\* the client appends a content block to the last message
AddBlock(block) ==
  /\ neutral = None
  /\ inbound # <<>>
  /\ CountBlocks(inbound) < MaxParts
  /\ inbound' = [inbound EXCEPT ![Len(inbound)].content.blocks =
                   Append(@, block)]
  /\ UNCHANGED <<neutral, rendered>>

\* convertFromAnthropicMessages(body.messages)
Parse ==
  /\ neutral = None
  /\ neutral' = convertFromAnthropicMessages(inbound)
  /\ UNCHANGED <<inbound, rendered>>

\* the assistant turns of a list of neutral messages
AssistantTurns(result) ==
  {i \in 1..Len(result) : result[i].role = "assistant"}

\* convertToAnthropicMessagesPrompt({prompt:
\*   [convertToLanguageModelMessage(message, {})], sendReasoning: true}),
\* for the last assistant turn of the neutral prompt
Render ==
  /\ neutral # None
  /\ rendered = None
  /\ ~neutral.threw
  /\ AssistantTurns(neutral.result) # {}
  /\ LET turns == AssistantTurns(neutral.result)
         last == CHOOSE i \in turns : \A j \in turns : j <= i
     IN rendered' = convertToAnthropicMessagesPrompt(
                      <<convertToLanguageModelMessage(neutral.result[last])>>,
                      TRUE)
  /\ UNCHANGED <<inbound, neutral>>

\* a specification of one response has no other instance of
\* convertToAnthropicStream, running or ended
InstancesIdle == instances = <<>> /\ earlier = None

(***************************************************************************)
(* Several responses streamed at once: every call of                       *)
(* convertToAnthropicStream has its own index and reasoningBuffer, and the *)
(* chunks of the calls arrive interleaved.                                 *)
(***************************************************************************)
\* the closure of one call: let index = 0; let reasoningBuffer = ""
NewInstance ==
  [index |-> 0, reasoningBuffer |-> <<>>, received |-> <<>>,
   emitted |-> <<>>]

\* an index kept outside the call: every instance reads that of the first
sharedIndex(insts, i) == insts[1].index

\* the index transform() of instance i reads: the one of its own closure
ownIndex(insts, i) == insts[i].index

\* the chunks the drivers of concurrent responses deliver
InstanceChunks ==
  { [type |-> "text-start"], [type |-> "text-end"],
    [type |-> "tool-call", toolCallId |-> "call_1", toolName |-> "Read",
     input |-> "in_1"],
    [type |-> "finish"] }

\* a driver ends the text block it has open and nothing else, opens none
\* while one is open, and delivers nothing after finish
MayFollow(chunks, chunk) ==
  LET open ==
        Cardinality({p \in 1..Len(chunks) : chunks[p].type = "text-start"})
          > Cardinality({p \in 1..Len(chunks) : chunks[p].type = "text-end"})
  IN /\ Len(chunks) < MaxBody
     /\ chunks # <<>> => chunks[Len(chunks)].type # "finish"
     /\ (chunk.type = "text-end") <=> open

\* a request calls convertToAnthropicStream(stream.fullStream)
CallConvert ==
  /\ Len(instances) < MaxInstances
  /\ instances' = Append(instances, NewInstance)
  /\ UNCHANGED earlier

\* transform() of instance i runs on the next chunk of its stream
Feed(i, chunk) ==
  /\ i \in DOMAIN instances
  /\ MayFollow(instances[i].received, chunk)
  /\ LET r == transform(chunk, ownIndex(instances, i),
                        instances[i].reasoningBuffer)
     IN instances' =
          [instances EXCEPT ![i] =
             [index |-> r.index, reasoningBuffer |-> r.buffer,
              received |-> Append(@.received, chunk),
              emitted |-> @.emitted \o r.out]]
  /\ UNCHANGED earlier

(***************************************************************************)
(* ConfigManager (config-manager.ts), the edits of the setup wizard        *)
(* (setup.ts) and DEFAULT_CONFIG (config-types.ts).                        *)
(*                                                                         *)
(* A provider's config is a function on the keys it has: apiKey, baseURL,  *)
(* enabled; an apiKey that is set to undefined is "undefined".  A config   *)
(* object holds its providers and its claude object by reference: Shared   *)
(* is the object of DEFAULT_CONFIG, Own(value) an object of its own.       *)
(* defaultModel is the pair provider, model of `${provider}/${model}`.     *)
(***************************************************************************)
ProviderNames == {"openai", "google", "xai", "azure", "anthropic"}

DefaultBaseURL ==
  [openai |-> "https://api.openai.com/v1",
   google |-> "https://generativelanguage.googleapis.com/v1beta",
   xai |-> "https://api.x.ai/v1",
   azure |-> "",
   anthropic |-> "https://api.anthropic.com"]

\* DEFAULT_CONFIG as the module that declares it leaves it
OriginalDefaults ==
  [version |-> "1.0.0",
   defaultProvider |-> "google",
   defaultModel |-> <<"google", "gemini-2.5-pro">>,
   proxyPort |-> 60618,
   providers |-> [name \in ProviderNames |->
                    [baseURL |-> DefaultBaseURL[name], enabled |-> FALSE]],
   claude |-> [dummyApiKey |-> "sk-ant-api03-dummy_key",
               note |-> "This is a fake key"]]

Shared == [shared |-> TRUE]
Own(value) == [shared |-> FALSE, value |-> value]

\* config.providers and config.claude, read through the reference
providersOf(c) ==
  IF c.providers.shared THEN DEFAULT_CONFIG.providers ELSE c.providers.value
claudeOf(c) ==
  IF c.claude.shared THEN DEFAULT_CONFIG.claude ELSE c.claude.value

\* { ...a, ...b }
spread(a, b) == b @@ a

\* JSON.parse(JSON.stringify(config)): a key whose value is undefined is
\* left out
stringifyProvider(providerConfig) ==
  IF "apiKey" \in DOMAIN providerConfig
  THEN IF providerConfig.apiKey = "undefined"
       THEN [key \in DOMAIN providerConfig \ {"apiKey"} |->
               providerConfig[key]]
       ELSE providerConfig
  ELSE providerConfig

stringify(c) ==
  [c EXCEPT !.providers = [name \in ProviderNames |->
                             stringifyProvider(providersOf(c)[name])],
            !.claude = claudeOf(c)]

\* the states of the config file
Missing == [state |-> "missing"]
Invalid == [state |-> "invalid"]
Saved(data) == [state |-> "valid", data |-> data]

mergeWithDefaults(data) ==
  [version |-> data.version,
   defaultProvider |-> data.defaultProvider,
   defaultModel |-> data.defaultModel,
   proxyPort |-> data.proxyPort,
   providers |-> Own([name \in ProviderNames |->
                        spread(DEFAULT_CONFIG.providers[name],
                               data.providers[name])]),
   claude |-> Own(spread(DEFAULT_CONFIG.claude, data.claude))]

\* { ...DEFAULT_CONFIG }: a new object whose providers and claude are the
\* objects of DEFAULT_CONFIG
shallowCopyOfDefaults ==
  [DEFAULT_CONFIG EXCEPT !.providers = Shared, !.claude = Shared]

\* what loadConfig() returns
loadConfig ==
  IF configFile.state = "valid"
  THEN mergeWithDefaults(configFile.data)
  ELSE shallowCopyOfDefaults

\* c.providers[providerName] = providerConfig: the objects after the
\* assignment, DEFAULT_CONFIG among them
assignProvider(c, provider, providerConfig) ==
  IF c.providers.shared
  THEN [config |-> c,
        defaults |-> [DEFAULT_CONFIG EXCEPT
                        !.providers[provider] = providerConfig]]
  ELSE [config |-> [c EXCEPT !.providers.value[provider] =
                               providerConfig],
        defaults |-> DEFAULT_CONFIG]

\* c.claude.dummyApiKey = dummyKey
assignDummyKey(c, dummyKey) ==
  IF c.claude.shared
  THEN [config |-> c,
        defaults |-> [DEFAULT_CONFIG EXCEPT !.claude.dummyApiKey = dummyKey]]
  ELSE [config |-> [c EXCEPT !.claude.value.dummyApiKey = dummyKey],
        defaults |-> DEFAULT_CONFIG]

\* what saveConfig(c) leaves in the file, read with the objects as they
\* are after the caller's assignments
savedWith(c, defaults) ==
  Saved([c EXCEPT
           !.providers =
             [name \in ProviderNames |->
                stringifyProvider(IF c.providers.shared
                                  THEN defaults.providers[name]
                                  ELSE c.providers.value[name])],
           !.claude = IF c.claude.shared THEN defaults.claude
                      ELSE c.claude.value])

\* the inputs explored
ConfiguredNames == {"openai"}
ProviderUpdates ==
  { [enabled |-> TRUE], [enabled |-> FALSE], [apiKey |-> "sk-1"] }
ApiKeyAnswers == {"", "sk-1"}
ModelFor == [openai |-> "gpt-4"]

ConfigIdle ==
  /\ DEFAULT_CONFIG = OriginalDefaults
  /\ configFile = Missing
  /\ config = None

\* updateProvider(providerName, providerConfig); enableProvider and
\* disableProvider call it with { enabled: true } and { enabled: false }
UpdateProvider(provider, providerConfig) ==
  LET loaded == loadConfig
      r == assignProvider(loaded, provider,
                          spread(providersOf(loaded)[provider],
                                 providerConfig))
  IN /\ DEFAULT_CONFIG' = r.defaults
     /\ configFile' = savedWith(r.config, r.defaults)
     /\ UNCHANGED config

\* setDefaultProvider(providerName, modelName)
SetDefaultProvider(provider) ==
  LET loaded == loadConfig
      edited == [loaded EXCEPT
                   !.defaultProvider = provider,
                   !.defaultModel = <<provider, ModelFor[provider]>>]
  IN /\ configFile' = savedWith(edited, DEFAULT_CONFIG)
     /\ UNCHANGED <<DEFAULT_CONFIG, config>>

\* deleteConfig()
DeleteConfig ==
  /\ configFile' = Missing
  /\ UNCHANGED <<DEFAULT_CONFIG, config>>

\* the file is left with text that JSON.parse rejects
InvalidateConfig ==
  /\ configFile.state = "valid"
  /\ configFile' = Invalid
  /\ UNCHANGED <<DEFAULT_CONFIG, config>>

\* AnyclaudeSetup.run: const config = await configManager.loadConfig()
LoadConfig ==
  /\ config' = loadConfig
  /\ UNCHANGED <<DEFAULT_CONFIG, configFile>>

\* quickSetup: configureProvider(config, providerName), then the default
\* provider and model
QuickSetup(provider, apiKey) ==
  /\ config # None
  /\ LET providerConfig ==
           [apiKey |-> IF apiKey = "" THEN "undefined" ELSE apiKey,
            baseURL |-> DefaultBaseURL[provider],
            enabled |-> TRUE]
         r == assignProvider(config, provider, providerConfig)
     IN /\ DEFAULT_CONFIG' = r.defaults
        /\ config' = [r.config EXCEPT
                        !.defaultProvider = provider,
                        !.defaultModel =
                          <<provider, ModelFor[provider]>>]
  /\ UNCHANGED configFile

\* advancedSetup: config.claude.dummyApiKey = dummyKey
AdvancedSetup ==
  /\ config # None
  /\ LET r == assignDummyKey(config, "sk-ant-custom")
     IN /\ DEFAULT_CONFIG' = r.defaults
        /\ config' = r.config
  /\ UNCHANGED configFile

\* AnyclaudeSetup.run: await configManager.saveConfig(config)
SaveConfig ==
  /\ config # None
  /\ configFile' = savedWith(config, DEFAULT_CONFIG)
  /\ UNCHANGED <<DEFAULT_CONFIG, config>>

(***************************************************************************)
(* The specifications.                                                     *)
(***************************************************************************)
\* the variables a specification of one part leaves alone
otherIdle ==
  /\ RouteIdle /\ AbortIdle /\ SchemaIdle /\ ParseIdle /\ InstancesIdle
  /\ ConfigIdle
liveOther == <<routeVars, aborted, schemaVars, parseVars, instances,
               configVars>>
otherVars == <<liveOther, earlier>>

InitPrompt == PromptInit /\ StreamIdle /\ ProxyIdle /\ otherIdle

NextPrompt ==
  \/ \E role \in PromptRoles :
       AddMessage(role) /\ UNCHANGED <<streamVars, proxyVars, otherVars>>
  \/ \E part \in AssistantParts \cup UserParts :
       AddPart(part) /\ UNCHANGED <<streamVars, proxyVars, otherVars>>
  \/ Convert /\ UNCHANGED <<streamVars, proxyVars, otherVars>>

SpecPrompt == InitPrompt /\ [][NextPrompt]_vars

NextTurns ==
  \/ \E message \in TurnMessages :
       AddTurn(message) /\ UNCHANGED <<streamVars, proxyVars, otherVars>>
  \/ Convert /\ UNCHANGED <<streamVars, proxyVars, otherVars>>

SpecTurns == InitPrompt /\ [][NextTurns]_vars

InitStream == PromptIdle /\ StreamInit /\ ProxyIdle /\ otherIdle

NextStream ==
  \/ \E chunk \in DriverNext :
       Transform(chunk) /\ UNCHANGED <<promptVars, proxyVars, otherVars>>
  \/ StreamClose /\ UNCHANGED <<promptVars, proxyVars, otherVars>>

SpecStream == InitStream /\ [][NextStream]_vars

Init == PromptIdle /\ StreamInit /\ ProxyInit /\ otherIdle

Next ==
  \/ StreamText /\ UNCHANGED <<promptVars, otherVars>>
  \/ StreamTextThrows /\ UNCHANGED <<promptVars, otherVars>>
  \/ \E chunk \in DriverNext :
       Pipe(chunk) /\ UNCHANGED <<promptVars, otherVars>>
  \/ OnError /\ UNCHANGED <<promptVars, otherVars>>
  \/ Write /\ UNCHANGED <<promptVars, otherVars>>
  \/ PipeEnd /\ UNCHANGED <<promptVars, otherVars>>
  \/ Close /\ UNCHANGED <<promptVars, otherVars>>
  \/ PipeFails /\ UNCHANGED <<promptVars, otherVars>>
  \/ ConsumeError /\ UNCHANGED <<promptVars, otherVars>>
  \/ OnFinish /\ UNCHANGED <<promptVars, otherVars>>
  \/ ConsumeDone /\ UNCHANGED <<promptVars, otherVars>>
  \/ ConsumeFails /\ UNCHANGED <<promptVars, otherVars>>
  \/ HandlerCatch /\ UNCHANGED <<promptVars, otherVars>>

Spec == Init /\ [][Next]_vars

\* a request from its arrival to the call of streamText, or to its answer
InitRoute ==
  /\ PromptIdle /\ StreamIdle /\ AbortIdle /\ SchemaIdle
  /\ ParseIdle /\ InstancesIdle /\ ConfigIdle
  /\ RouteInit
  /\ pc = "request"
  /\ providerName = "none"
  /\ bodyStream = FALSE
  /\ res = NewResponse
  /\ nwritten = 0
  /\ onErrorArg = None
  /\ driverError = None
  /\ onErrorOutcome = None
  /\ conversion = None
  /\ rewrites = 0
  /\ thrown = None

routeOther == <<promptVars, streamVars, aborted, schemaVars, parseVars,
                instances, earlier, configVars>>

NextRoute ==
  \/ RouteProxy /\ UNCHANGED routeOther
  \/ \E proxiedRes \in UpstreamResponses :
       UpstreamResponds(proxiedRes) /\ UNCHANGED routeOther
  \/ ReadBody /\ UNCHANGED routeOther
  \/ SplitModel /\ UNCHANGED routeOther
  \/ LookupProvider /\ UNCHANGED routeOther
  \/ ConvertMessages /\ UNCHANGED routeOther
  \/ HandlerCatch /\ UNCHANGED <<routeOther, routeVars>>

SpecRoute == InitRoute /\ [][NextRoute]_vars

\* a request whose client may go away while the driver call is outstanding
InitAbort ==
  /\ PromptIdle /\ StreamInit /\ ProxyInit
  /\ RouteIdle /\ AbortIdle /\ SchemaIdle
  /\ ParseIdle /\ InstancesIdle /\ ConfigIdle
  /\ providerName = "openai"
  /\ driverError = Err("boom")

abortOther == <<promptVars, routeVars, schemaVars, parseVars, instances,
                earlier, configVars>>

NextAbort ==
  \/ ClientAbort /\ UNCHANGED abortOther
  \/ StreamText /\ UNCHANGED <<abortOther, aborted>>
  \/ StreamTextThrows /\ UNCHANGED <<abortOther, aborted>>
  \/ \E chunk \in DriverNext :
       Pipe(chunk) /\ UNCHANGED <<abortOther, aborted>>
  \/ OnError /\ UNCHANGED <<abortOther, aborted>>
  \/ Write /\ UNCHANGED <<abortOther, aborted>>
  \/ PipeEnd /\ UNCHANGED <<abortOther, aborted>>
  \/ Close /\ UNCHANGED <<abortOther, aborted>>
  \/ PipeFails /\ UNCHANGED <<abortOther, aborted>>
  \/ ConsumeError /\ UNCHANGED <<abortOther, aborted>>
  \/ OnFinish /\ UNCHANGED <<abortOther, aborted>>
  \/ ConsumeDone /\ UNCHANGED <<abortOther, aborted>>
  \/ ConsumeFails /\ UNCHANGED <<abortOther, aborted>>
  \/ HandlerCatch /\ UNCHANGED <<abortOther, aborted>>

SpecAbort == InitAbort /\ [][NextAbort]_vars

\* providerizeSchema applied to a schema, and again to its result
InitSchema ==
  /\ PromptIdle /\ StreamIdle /\ ProxyIdle
  /\ RouteIdle /\ AbortIdle
  /\ ParseIdle /\ InstancesIdle /\ ConfigIdle
  /\ SchemaInit

schemaOther == <<promptVars, streamVars, proxyVars, routeVars, aborted,
                 parseVars, instances, earlier, configVars>>

NextSchema ==
  \/ Adapt /\ UNCHANGED schemaOther
  \/ Readapt /\ UNCHANGED schemaOther

SpecSchema == InitSchema /\ [][NextSchema]_vars

\* a list of Anthropic messages, converted and its last assistant turn
\* rendered again
InitParse ==
  /\ PromptIdle /\ StreamIdle /\ ProxyIdle
  /\ RouteIdle /\ AbortIdle /\ SchemaIdle /\ InstancesIdle
  /\ ConfigIdle
  /\ ParseIdle

parseOther == <<promptVars, streamVars, proxyVars, routeVars, aborted,
                schemaVars, instances, earlier, configVars>>

NextParse ==
  \/ \E role \in PromptRoles : AddInbound(role) /\ UNCHANGED parseOther
  \/ \E block \in InboundBlocks : AddBlock(block) /\ UNCHANGED parseOther
  \/ Parse /\ UNCHANGED parseOther
  \/ Render /\ UNCHANGED parseOther

SpecParse == InitParse /\ [][NextParse]_vars

\* streamed requests one after the other, each run to its end: the event
\* loop runs the callback that is due, and a transform that called
\* controller.error makes the pipe reject
InitLive ==
  /\ Init
  /\ bodyStream
  /\ providerName = "openai"
  /\ driverError = Err("boom")

LiveStep ==
  \/ StreamText /\ UNCHANGED <<promptVars, otherVars>>
  \/ \E chunk \in DriverNext :
       Pipe(chunk) /\ UNCHANGED <<promptVars, otherVars>>
  \/ OnError /\ UNCHANGED <<promptVars, otherVars>>
  \/ Write /\ UNCHANGED <<promptVars, otherVars>>
  \/ PipeEnd /\ UNCHANGED <<promptVars, otherVars>>
  \/ Close /\ UNCHANGED <<promptVars, otherVars>>
  \/ tstate = "errored" /\ PipeFails /\ UNCHANGED <<promptVars, otherVars>>

NextLive ==
  \/ LiveStep
  \/ StreamTextThrows /\ UNCHANGED <<promptVars, otherVars>>
  \/ PipeFails /\ UNCHANGED <<promptVars, otherVars>>
  \/ NextRequest /\ UNCHANGED <<promptVars, liveOther>>

SpecLive == InitLive /\ [][NextLive]_vars /\ WF_vars(LiveStep)

\* calls of convertToAnthropicStream running at once
InitInstances ==
  /\ PromptIdle /\ StreamIdle /\ ProxyIdle
  /\ RouteIdle /\ AbortIdle /\ SchemaIdle /\ ParseIdle
  /\ ConfigIdle
  /\ InstancesIdle

instancesOther == <<promptVars, streamVars, proxyVars, routeVars, aborted,
                    schemaVars, parseVars, configVars>>

NextInstances ==
  \/ CallConvert /\ UNCHANGED instancesOther
  \/ \E i \in 1..MaxInstances : \E chunk \in InstanceChunks :
       Feed(i, chunk) /\ UNCHANGED instancesOther

SpecInstances == InitInstances /\ [][NextInstances]_vars

\* the operations of ConfigManager and the edits of the setup wizard, in
\* any order
InitConfig ==
  /\ PromptIdle /\ StreamIdle /\ ProxyIdle
  /\ RouteIdle /\ AbortIdle /\ SchemaIdle /\ ParseIdle /\ InstancesIdle
  /\ ConfigIdle

configOther == <<promptVars, streamVars, proxyVars, routeVars, aborted,
                 schemaVars, parseVars, instances, earlier>>

NextConfig ==
  \/ \E provider \in ConfiguredNames :
       \E providerConfig \in ProviderUpdates :
         UpdateProvider(provider, providerConfig)
         /\ UNCHANGED configOther
  \/ \E provider \in ConfiguredNames :
       SetDefaultProvider(provider) /\ UNCHANGED configOther
  \/ DeleteConfig /\ UNCHANGED configOther
  \/ InvalidateConfig /\ UNCHANGED configOther
  \/ LoadConfig /\ UNCHANGED configOther
  \/ \E provider \in ConfiguredNames : \E apiKey \in ApiKeyAnswers :
       QuickSetup(provider, apiKey) /\ UNCHANGED configOther
  \/ AdvancedSetup /\ UNCHANGED configOther
  \/ SaveConfig /\ UNCHANGED configOther

SpecConfig == InitConfig /\ [][NextConfig]_vars

(***************************************************************************)
(* Claims about convertToAnthropicMessagesPrompt, checked under SpecPrompt *)
(***************************************************************************)
RECURSIVE Flatten(_)
Flatten(ss) == IF ss = <<>> THEN <<>> ELSE Head(ss) \o Flatten(Tail(ss))

\* the parts of the messages a block merges, in input order
BlockParts(block) ==
  Flatten([i \in 1..Len(block.messages) |-> block.messages[i].content])

\* the blocks of the prompt that become messages, in order
MessageBlocks ==
  SelectSeq(groupIntoBlocks(prompt), LAMBDA b : b.type # "system")

ToolUsesOf(content, c) ==
  {i \in 1..Len(content) : content[i].type = "tool_use" /\ content[i].id = c}

ToolCallsOf(parts, c) ==
  {i \in 1..Len(parts) :
     parts[i].type = "tool-call" /\ parts[i].toolCallId = c}

Min(S) == CHOOSE x \in S : \A y \in S : x <= y

CallIds == {"call_1", "call_2"}

Converted == conv.ran /\ ~conv.threw

\* C1: every assistant message of the output holds at most one tool_use
\* block per call id, and that block carries the name and the input of the
\* first tool-call part with this id among the parts merged into the
\* message.
C1_ToolCallDedup ==
  Converted =>
    \A m \in 1..Len(conv.messages) : \A c \in CallIds :
      LET content == conv.messages[m].content
          parts == BlockParts(MessageBlocks[m])
          uses == ToolUsesOf(content, c)
          calls == ToolCallsOf(parts, c)
      IN conv.messages[m].role = "assistant" =>
           /\ Cardinality(uses) <= 1
           /\ (calls # {}) <=> (uses # {})
           /\ \A u \in uses :
                /\ content[u].name = parts[Min(calls)].toolName
                /\ content[u].input = parts[Min(calls)].input

\* C1 witness: a converted assistant message whose parts held the same call
\* id twice with different inputs, and whose one tool_use has the first
C1_Witness ==
  /\ Converted
  /\ \E m \in 1..Len(conv.messages) :
       LET content == conv.messages[m].content
           parts == BlockParts(MessageBlocks[m])
           calls == ToolCallsOf(parts, "call_1")
       IN /\ conv.messages[m].role = "assistant"
          /\ Cardinality(calls) >= 2
          /\ \E i, j \in calls : parts[i].input # parts[j].input
          /\ \E u \in ToolUsesOf(content, "call_1") :
               content[u].input = parts[Min(calls)].input

\* the parts of an assistant block the converter may remove
Removable(parts, i) ==
  \/ parts[i].type = "reasoning" /\ ~sendReasoning
  \/ /\ parts[i].type = "tool-call"
     /\ \E j \in 1..(i - 1) :
          /\ parts[j].type = "tool-call"
          /\ parts[j].toolCallId = parts[i].toolCallId

\* C2: from the parts of an assistant message only tool-call parts whose
\* id was already emitted (and reasoning parts when sendReasoning is
\* false) are removed: every other part yields one block, in input order.
C2_OnlyDuplicatesRemoved ==
  Converted =>
    \A m \in 1..Len(conv.messages) :
      LET content == conv.messages[m].content
          parts == BlockParts(MessageBlocks[m])
          kept == SelectSeqIdx(parts, LAMBDA i : ~Removable(parts, i))
      IN conv.messages[m].role = "assistant" =>
           /\ Len(content) = Len(kept)
           /\ \A k \in 1..Len(kept) :
                /\ parts[kept[k]].type = "text" =>
                     content[k].type = "text"
                /\ parts[kept[k]].type = "tool-call" =>
                     /\ content[k].type = "tool_use"
                     /\ content[k].id = parts[kept[k]].toolCallId

(***************************************************************************)
(* Claims about convertToAnthropicStream, checked under SpecStream         *)
(***************************************************************************)
StartsIn(out) ==
  {i \in 1..Len(out) : out[i].type = "content_block_start"}

\* C3: up to finish, the indices of successive content_block_start events
\* are strictly increasing.
C3_StartIndicesIncrease ==
  \A i, j \in StartsIn(emitted) :
    i < j => emitted[i].index < emitted[j].index

BlockEnds == {"text-end", "reasoning-end", "tool-input-end", "tool-call"}

\* the chunk types that may follow inside an open block of a kind
InsideOf(kind) ==
  CASE kind = "text" -> {"text-delta", "text-end"}
    [] kind = "reasoning" -> {"reasoning-delta", "reasoning-end"}
    [] kind = "tool" -> {"tool-input-delta", "tool-input-end"}
    [] OTHER -> {}

\* the block left open after chunk type t, read in state open ("" = none)
OpenAfter(open, t) ==
  CASE t = "text-start" -> "text"
    [] t = "reasoning-start" -> "reasoning"
    [] t = "tool-input-start" -> "tool"
    [] t \in BlockEnds -> ""
    [] OTHER -> open

\* the stream is of the form start-step, blocks each given as start,
\* deltas, end or as a one-shot tool-call, finish-step, finish
RECURSIVE WellFormedFrom(_, _, _)
WellFormedFrom(s, phase, open) ==
  IF s = <<>> THEN TRUE
  ELSE LET t == Head(s).type
       IN CASE phase = "init" ->
                 /\ t \in {"start", "start-step"}
                 /\ WellFormedFrom(Tail(s),
                      IF t = "start" THEN "init" ELSE "body", open)
            [] phase = "body" /\ open # "" ->
                 /\ t \in InsideOf(open)
                 /\ WellFormedFrom(Tail(s), "body", OpenAfter(open, t))
            [] phase = "body" /\ open = "" ->
                 /\ t \in {"text-start", "reasoning-start",
                           "tool-input-start", "tool-call", "finish-step"}
                 /\ WellFormedFrom(Tail(s),
                      IF t = "finish-step" THEN "finish-step" ELSE "body",
                      OpenAfter(open, t))
            [] phase = "finish-step" ->
                 /\ t = "finish"
                 /\ WellFormedFrom(Tail(s), "done", open)
            [] OTHER -> FALSE

WellFormed(s) == WellFormedFrom(s, "init", "")

\* the number of blocks completed by the chunks before position p
BlocksBefore(s, p) ==
  Cardinality({q \in 1..(p - 1) : s[q].type \in BlockEnds})

\* the Anthropic events a neutral chunk maps to, for block number b
MappedEvents(chunk, b) ==
  CASE chunk.type = "start" -> <<>>
    [] chunk.type = "start-step" ->
         <<[type |-> "message_start", id |-> "msg_now", role |-> "assistant",
            usage |-> [input_tokens |-> Num(0), output_tokens |-> Num(0),
                       cache_creation_input_tokens |-> Num(0),
                       cache_read_input_tokens |-> Num(0)]]>>
    [] chunk.type = "text-start" ->
         <<[type |-> "content_block_start", index |-> b,
            content_block |-> [type |-> "text", text |-> ""]]>>
    [] chunk.type = "reasoning-start" ->
         <<[type |-> "content_block_start", index |-> b,
            content_block |-> [type |-> "thinking", thinking |-> ""]]>>
    [] chunk.type = "tool-input-start" ->
         <<[type |-> "content_block_start", index |-> b,
            content_block |-> [type |-> "tool_use", id |-> chunk.id,
                               name |-> chunk.toolName, input |-> "{}"]]>>
    [] chunk.type \in {"text-delta", "reasoning-delta"} ->
         <<[type |-> "content_block_delta", index |-> b,
            delta |-> [type |-> "text_delta", text |-> chunk.text]]>>
    [] chunk.type = "tool-input-delta" ->
         <<[type |-> "content_block_delta", index |-> b,
            delta |-> [type |-> "input_json_delta",
                       partial_json |-> chunk.delta]]>>
    [] chunk.type \in {"text-end", "reasoning-end", "tool-input-end"} ->
         <<[type |-> "content_block_stop", index |-> b]>>
    [] chunk.type = "tool-call" ->
         <<[type |-> "content_block_start", index |-> b,
            content_block |-> [type |-> "tool_use", id |-> chunk.toolCallId,
                               name |-> chunk.toolName,
                               input |-> chunk.input]],
           [type |-> "content_block_stop", index |-> b]>>
    [] chunk.type = "finish-step" ->
         <<[type |-> "message_delta",
            stop_reason |->
              CASE chunk.finishReason = "stop" -> "end_turn"
                [] chunk.finishReason = "tool-calls" -> "tool_use"
                [] chunk.finishReason = "length" -> "max_tokens"
                [] OTHER -> "unknown",
            stop_sequence |-> "null",
            usage |->
              [input_tokens |->
                 IF chunk.usage.inputTokens = Undefined THEN Num(0)
                 ELSE chunk.usage.inputTokens,
               output_tokens |->
                 IF chunk.usage.outputTokens = Undefined THEN Num(0)
                 ELSE chunk.usage.outputTokens,
               cache_creation_input_tokens |-> Num(0),
               cache_read_input_tokens |->
                 IF chunk.usage.cachedInputTokens # Undefined
                 THEN chunk.usage.cachedInputTokens
                 ELSE IF chunk.providerMetadata # Undefined
                         /\ chunk.providerMetadata.f.openai.f.cached_tokens.t
                              = "number"
                 THEN chunk.providerMetadata.f.openai.f.cached_tokens
                 ELSE Num(0)]]>>
    [] OTHER -> <<[type |-> "message_stop"]>>

ExpectedEvents(s) ==
  Flatten([p \in 1..Len(s) |-> MappedEvents(s[p], BlocksBefore(s, p))])

ScenarioChunks ==
  << [type |-> "start-step"],
     [type |-> "text-start"],
     [type |-> "text-delta", text |-> "hi"],
     [type |-> "text-end"],
     FinishStep("stop", Usage(Num(10), Num(5), Undefined), Undefined),
     [type |-> "finish"] >>

ScenarioEvents ==
  << [type |-> "message_start", id |-> "msg_now", role |-> "assistant",
      usage |-> [input_tokens |-> Num(0), output_tokens |-> Num(0),
                 cache_creation_input_tokens |-> Num(0),
                 cache_read_input_tokens |-> Num(0)]],
     [type |-> "content_block_start", index |-> 0,
      content_block |-> [type |-> "text", text |-> ""]],
     [type |-> "content_block_delta", index |-> 0,
      delta |-> [type |-> "text_delta", text |-> "hi"]],
     [type |-> "content_block_stop", index |-> 0],
     [type |-> "message_delta", stop_reason |-> "end_turn",
      stop_sequence |-> "null",
      usage |-> [input_tokens |-> Num(10), output_tokens |-> Num(5),
                 cache_creation_input_tokens |-> Num(0),
                 cache_read_input_tokens |-> Num(0)]],
     [type |-> "message_stop"] >>

\* C4: for a stream of the form start-step, blocks each given as start,
\* deltas, end (or a one-shot tool-call), finish-step, finish, the events
\* emitted are exactly the mapped events in the order the chunks were
\* received, every event of a block carrying the block's number; the
\* scenario stream yields the scenario events.
C4_MappedInOrder ==
  /\ WellFormed(received) =>
       /\ tstate # "errored"
       /\ emitted = ExpectedEvents(received)
  /\ received = ScenarioChunks => emitted = ScenarioEvents

\* C4 witness: the scenario stream received to its end, with its six events
C4_Witness ==
  /\ received = ScenarioChunks
  /\ Len(emitted) = 6
  /\ emitted[6].type = "message_stop"

\* C5: the message_delta of a finish-step carries as cache_read_input_tokens
\* the driver's cachedInputTokens when reported, else a numeric
\* providerMetadata.openai.cached_tokens, else 0, and always 0 as
\* cache_creation_input_tokens.
C5_CachedTokens ==
  dpc = "finish-step" =>
    LET chunk == received[Len(received)]
        delta == emitted[Len(emitted)]
        cached == chunk.usage.cachedInputTokens
        reported ==
          IF chunk.providerMetadata = Undefined THEN Undefined
          ELSE chunk.providerMetadata.f.openai.f.cached_tokens
    IN /\ delta.type = "message_delta"
       /\ delta.usage.cache_creation_input_tokens = Num(0)
       /\ cached # Undefined => delta.usage.cache_read_input_tokens = cached
       /\ cached = Undefined /\ reported.t = "number" =>
            delta.usage.cache_read_input_tokens = reported
       /\ cached = Undefined /\ reported.t # "number" =>
            delta.usage.cache_read_input_tokens = Num(0)

\* C5 witness: a finish-step reporting 7 cached tokens, emitted as 7
C5_Witness ==
  /\ dpc = "finish-step"
  /\ received[Len(received)].usage.cachedInputTokens = Num(7)
  /\ emitted[Len(emitted)].type = "message_delta"
  /\ emitted[Len(emitted)].usage.cache_read_input_tokens = Num(7)

(***************************************************************************)
(* Claims about the handler's error handling, checked under Spec           *)
(***************************************************************************)
\* the error kind a pre-stream handling mapped the error to
OnErrorKind ==
  IF onErrorOutcome.statusCode = 400 THEN Str("unmapped")
  ELSE Get(Get(Get(onErrorOutcome.body, "error"), "error"), "type")

\* the error kind a mid-stream handling mapped the error to
ConversionKind ==
  IF ~conversion.wasConverted THEN Str("unmapped")
  ELSE Get(conversion.converted.error, "type")

\* C6: a driver error handled by onError and by
\* convertProviderErrorToAnthropic, for the same provider, is mapped to the
\* same Anthropic error kind by both.
C6_SameKindOnBothPaths ==
  onErrorOutcome # None /\ conversion # None =>
    OnErrorKind = ConversionKind

HasServerErrorCode(error) ==
  \/ Get(error, "code") = Str("server_error")
  \/ Get(Get(error, "error"), "code") = Str("server_error")

\* C7: in a streaming openai request the SSE event written to the client
\* for a driver error with code server_error has error.type
\* rate_limit_error.
C7_ServerErrorRewritten ==
  /\ providerName = "openai"
  /\ bodyStream
  /\ HasServerErrorCode(driverError)
  /\ conversion # None
  => \A i \in 1..Len(res.body) :
       res.body[i] = Sse(conversion.converted) =>
         Get(res.body[i].data.error, "type") = Str("rate_limit_error")

\* onError answered the request before any other byte was written
AnsweredByOnError ==
  /\ onErrorOutcome # None
  /\ res.body # <<>>
  /\ res.body[1] = Json(onErrorOutcome.body)

\* C8: for openai, an error with code rate_limit_exceeded and type tokens
\* raised before any response byte is answered with status 413 and
\* error.type request_too_large.
C8_TokensErrorIs413 ==
  /\ providerName = "openai"
  /\ hasErrorCode(driverError, "rate_limit_exceeded")
  /\ Get(Get(driverError, "error"), "type") = Str("tokens")
  /\ AnsweredByOnError
  => /\ res.statusCode = 413
     /\ Get(Get(res.body[1].data, "error"), "type")
          = Str("request_too_large")

\* C9: for openai, an error with code server_error raised before any
\* response byte is answered with status 429 and error.type
\* rate_limit_error; for another provider the error is not rewritten.
C9_ServerErrorIs429 ==
  /\ hasErrorCode(driverError, "server_error")
  /\ AnsweredByOnError
  => IF providerName = "openai"
     THEN /\ res.statusCode = 429
          /\ Get(Get(res.body[1].data, "error"), "type")
               = Str("rate_limit_error")
     ELSE /\ res.statusCode = 400
          /\ Get(res.body[1].data, "error") = driverError

\* C10: once the response has begun, no handler path writes a response
\* head again.
C10_NoHeadAfterBegun == rewrites = 0

(***************************************************************************)
(* Claims about the handler's catch blocks and answers, under Spec         *)
(***************************************************************************)
\* one of the catch blocks around the driver call, the consuming of its
\* stream and the piping of its stream runs
TransportCatch == StreamTextThrows \/ ConsumeFails \/ PipeFails

OverloadedEvent ==
  [kind |-> "sse", event |-> "error",
   data |-> [type |-> "error", error |-> Get(OverloadedError, "error")]]

\* C11: when the dispatch to the driver, the consuming or the piping of its
\* stream fails, a response of which nothing was written is answered 503
\* with an overloaded_error body; a response whose head was sent keeps its
\* status, gets one SSE overloaded_error event and is ended.
C11_TransportError ==
  [][TransportCatch =>
       IF ~res.headersSent
       THEN /\ res'.statusCode = 503
            /\ res'.body = <<Json(OverloadedError)>>
            /\ res'.ended
       ELSE /\ res'.statusCode = res.statusCode
            /\ res'.body = Append(res.body, OverloadedEvent)
            /\ res'.ended]_vars

\* no rewrite rule of the error mapping matches the error of the request
NoRewriteRule ==
  \/ providerName # "openai"
  \/ /\ ~HasServerErrorCode(driverError)
     /\ ~hasErrorCode(driverError, "rate_limit_exceeded")

\* C12: a provider error that no rewrite rule matches, answered before
\* streaming, gets status 400 and a body {type: "error", error: {...}}
\* whose error field is an object carrying the message, whether the error
\* is an Error instance or a plain object.
C12_PassThrough400 ==
  AnsweredByOnError /\ NoRewriteRule =>
    LET body == res.body[1].data
        error == Get(body, "error")
    IN /\ res.statusCode = 400
       /\ Get(body, "type") = Str("error")
       /\ error.t = "object"
       /\ \/ Get(error, "message") # Undefined
          \/ Get(Get(error, "error"), "message") # Undefined

\* C17: a response whose head was sent carries a Content-Type:
\* text/event-stream when SSE events are written to it, application/json
\* otherwise.
C17_ContentType ==
  res.headersSent =>
    IF \E i \in 1..Len(res.body) : res.body[i].kind = "sse"
    THEN res.contentType = "text/event-stream"
    ELSE res.contentType = "application/json"

(***************************************************************************)
(* Claims about the routing of a request, checked under SpecRoute          *)
(***************************************************************************)
PostMessages == req.method = "POST" /\ req.url = MessagesPath

HasSlash(name) == \E i \in 1..Len(name) : name[i] = "/"

FirstSlash(name) == Min({i \in 1..Len(name) : name[i] = "/"})

\* the handler has gone past the choice of the driver
Routed == pc \notin {"request", "parsed"}

\* C13: a POST /v1/messages whose model holds no slash is dispatched to the
\* anthropic driver with the model as given when that driver is registered,
\* and is otherwise proxied to Anthropic as it came.
C13_NoSlashModel ==
  PostMessages /\ req.body.json /\ ~HasSlash(req.body.model) /\ Routed =>
    IF <<"anthropic">> \in providers
    THEN /\ pc = "streamText"
         /\ providerName = <<"anthropic">>
         /\ model = req.body.model
    ELSE /\ upstream # None
         /\ upstream.path = req.url

\* C14: for a model holding a slash the provider is the text before the
\* first slash and the model handed to the driver is all the text after
\* it, further slashes included.
C14_ModelAfterFirstSlash ==
  PostMessages /\ req.body.json /\ HasSlash(req.body.model)
  /\ pc = "streamText" =>
    LET name == req.body.model
        slash == FirstSlash(name)
    IN /\ providerName = SubSeq(name, 1, slash - 1)
       /\ model = SubSeq(name, slash + 1, Len(name))

\* the blocks of a message list, in order
AllBlocks(messages) ==
  Flatten([i \in 1..Len(messages) |->
             IF messages[i].content.t = "string" THEN <<>>
             ELSE messages[i].content.blocks])

\* a tool_result names a tool_use id that no earlier block introduced
UnmatchedToolResult(messages) ==
  LET blocks == AllBlocks(messages)
  IN \E i \in 1..Len(blocks) :
       /\ blocks[i].type = "tool_result"
       /\ ~\E j \in 1..(i - 1) :
             /\ blocks[j].type = "tool_use"
             /\ blocks[j].id = blocks[i].tool_use_id

TranslationError ==
  /\ req.body.json
  /\ HasSlash(req.body.model)
  /\ \/ SubSeq(req.body.model, 1, FirstSlash(req.body.model) - 1)
          \notin providers
     \/ UnmatchedToolResult(req.body.messages)

\* C15: a POST /v1/messages naming a provider that is not registered, or
\* holding a tool_result without an earlier tool_use of its id, is answered
\* 400 with a JSON body, and the driver is not invoked for it.
C15_TranslationError400 ==
  PostMessages /\ TranslationError =>
    /\ pc # "streamText"
    /\ pc = "done" =>
         /\ res.statusCode = 400
         /\ res.contentType = "application/json"

\* C16: a request that is not exactly POST /v1/messages is forwarded to
\* api.anthropic.com with its method, path and headers less Host, and the
\* answer of the upstream is what the client gets.
C16_OthersProxied ==
  ~PostMessages /\ pc # "request" =>
    /\ upstream # None
    /\ upstream.host = "api.anthropic.com"
    /\ upstream.method = req.method
    /\ upstream.path = req.url
    /\ upstream.headers = req.headers \ {"host"}
    /\ pc = "done" =>
         /\ [statusCode |-> res.statusCode, contentType |-> res.contentType]
              \in UpstreamResponses
         /\ res.body = <<[kind |-> "upstream"]>>

\* C18: an error of a POST /v1/messages that no inner handler catches, a
\* body that is not JSON included, is answered 500 with the body
\* {error: "Internal server error: <message>"}, and the server stays up.
C18_Uncaught500 ==
  PostMessages =>
    /\ alive
    /\ ~req.body.json /\ pc # "request" => pc \in {"rejected", "done"}
    /\ thrown # None /\ pc = "done" =>
         /\ res.statusCode = 500
         /\ res.body =
              <<Json(Obj([error |->
                            Str(<<Str("Internal server error: "),
                                  Get(thrown, "message")>>)]))>>

(***************************************************************************)
(* The claim about a client that goes away, checked under SpecAbort        *)
(***************************************************************************)
\* C19: after the client of a request went away while its driver call was
\* outstanding, the driver call does not run on to the finish of its stream
\* with further events written for the request.
C19_AbortCancels ==
  aborted # None =>
    ~ /\ Len(received) > aborted.received
      /\ received[Len(received)].type = "finish"
      /\ nwritten > aborted.nwritten

(***************************************************************************)
(* Claims about providerizeSchema, checked under SpecSchema                *)
(***************************************************************************)
\* C20: providerizeSchema applied to its own result, for the same provider,
\* returns a schema equal to that result.
C20_Idempotent ==
  readapted # None => readapted = adapted

\* C20 witness: a schema that openai's adaptation changed, adapted again
C20_Witness ==
  /\ readapted # None
  /\ schemaProvider = "openai"
  /\ adapted # schema
  /\ readapted = adapted

\* the nodes of an adapted schema paired with the caller's nodes they come
\* from: the root, the values of properties, and single-schema items
RECURSIVE NodePairs(_, _)
NodePairs(orig, out) ==
  IF orig.t # "schema" \/ out.t # "schema" THEN {}
  ELSE {<<orig, out>>}
       \cup (IF orig.properties # Undefined /\ out.properties # Undefined
             THEN UNION { NodePairs(orig.properties.f[key],
                                    out.properties.f[key]) :
                          key \in DOMAIN orig.properties.f
                                  \cap DOMAIN out.properties.f }
             ELSE {})
       \cup (IF orig.items # Undefined /\ out.items # Undefined
             THEN IF orig.items.t = "schema" /\ out.items.t = "schema"
                  THEN NodePairs(orig.items, out.items)
                  ELSE {}
             ELSE {})

\* C21: for provider openai every node of type "object" in the adapted
\* schema, with or without a properties map, has additionalProperties equal
\* to the caller's value when the caller set one and false otherwise, and
\* has the caller's required array exactly when the caller's node had one.
C21_ObjectNodesClosed ==
  (adapted # None /\ schemaProvider = "openai") =>
    \A pair \in NodePairs(schema, adapted) :
      pair[2].type = "object" =>
        /\ pair[2].additionalProperties =
             (IF pair[1].additionalProperties = Undefined THEN Bool(FALSE)
              ELSE pair[1].additionalProperties)
        /\ pair[2].required = pair[1].required

\* the schemas that are the value of a property, at any nesting depth:
\* properties of the root, of nested objects and of schemas under items
RECURSIVE PropertyNodes(_)
PropertyNodes(node) ==
  IF node.t # "schema" THEN {}
  ELSE (IF node.properties # Undefined
        THEN UNION { (IF node.properties.f[key].t = "schema"
                      THEN {node.properties.f[key]} ELSE {})
                     \cup PropertyNodes(node.properties.f[key]) :
                     key \in DOMAIN node.properties.f }
        ELSE {})
       \cup (IF node.items # Undefined
             THEN IF node.items.t = "schema" THEN PropertyNodes(node.items)
                  ELSE IF node.items.t = "tuple"
                  THEN UNION { PropertyNodes(node.items.v[i]) :
                               i \in DOMAIN node.items.v }
                  ELSE {}
             ELSE {})

\* C22: for providers openai and google the adapted schema has no property,
\* at any nesting depth, with format "uri"; for every other provider the
\* format annotations are left in place.
C22_NoUriFormat ==
  adapted # None =>
    IF schemaProvider \in {"openai", "google"}
    THEN \A property \in PropertyNodes(adapted) : property.format # "uri"
    ELSE \A pair \in NodePairs(schema, adapted) :
           pair[2].format = pair[1].format

(***************************************************************************)
(* The trimming of the assistant prefill, checked under SpecPrompt         *)
(***************************************************************************)
\* the texts of the text parts (or text blocks) of a list, in order
TextsOf(seq) ==
  LET texts == SelectSeq(seq, LAMBDA x : x.type = "text")
  IN [i \in 1..Len(texts) |-> texts[i].text]

\* the texts a block of the prompt is to be rendered with: those of its text
\* parts, the last of them without its trailing whitespace when the block
\* is an assistant block and the last block of the prompt
RightTrimmedTexts(m) ==
  LET texts == TextsOf(BlockParts(MessageBlocks[m]))
      n == Len(texts)
  IN IF m = Len(MessageBlocks) /\ MessageBlocks[m].type = "assistant" /\ n > 0
     THEN [texts EXCEPT ![n] = TrimEnd(@)]
     ELSE texts

\* C24: when the last block of the prompt is an assistant block its final
\* text part is emitted without its trailing whitespace and with every other
\* character, leading whitespace included; every other text part of the
\* prompt is emitted unchanged.
C24_RightTrim ==
  Converted =>
    \A m \in 1..Len(conv.messages) :
      TextsOf(conv.messages[m].content) = RightTrimmedTexts(m)

(***************************************************************************)
(* Claims about convertFromAnthropicMessages and the round trip, checked   *)
(* under SpecParse                                                         *)
(***************************************************************************)
\* the prompt holds text blocks only
TextOnly ==
  \A m \in 1..Len(inbound) :
    \A b \in 1..Len(inbound[m].content.blocks) :
      inbound[m].content.blocks[b].type = "text"

\* the inbound message the last assistant turn of the neutral prompt comes
\* from: the last assistant message that has content blocks
LastAssistantInbound ==
  LET turns == {m \in 1..Len(inbound) :
                  /\ inbound[m].role = "assistant"
                  /\ inbound[m].content.blocks # <<>>}
  IN CHOOSE m \in turns : \A j \in turns : j <= m

\* the texts of the blocks of a message with the empty ones removed and,
\* when its last block is the last block of the prompt, that block without
\* its trailing whitespace
RoundTripTexts(m) ==
  LET blocks == inbound[m].content.blocks
      marked == [b \in 1..Len(blocks) |->
                   [text |-> blocks[b].text,
                    last |-> m = Len(inbound) /\ b = Len(blocks)]]
      kept == SelectSeq(marked, LAMBDA x : x.text # <<>>)
  IN [k \in 1..Len(kept) |->
        IF kept[k].last THEN TrimEnd(kept[k].text) ELSE kept[k].text]

\* C23: for a prompt of text blocks only, the last assistant turn of
\* convertFromAnthropicMessages, rendered with convertToLanguageModelMessage
\* and convertToAnthropicMessagesPrompt, is one message whose blocks are the
\* original blocks without the empty ones, the last block of the prompt
\* having lost only its trailing whitespace.
C23_TextRoundTrip ==
  (rendered # None /\ TextOnly) =>
    /\ ~rendered.threw
    /\ Len(rendered.messages) = 1
    /\ \A b \in 1..Len(rendered.messages[1].content) :
         rendered.messages[1].content[b].type = "text"
    /\ TextsOf(rendered.messages[1].content) =
         RoundTripTexts(LastAssistantInbound)

Parsed == neutral # None /\ ~neutral.threw

\* C25: in the neutral prompt convertFromAnthropicMessages returns, every
\* tool-result part comes after an assistant turn that holds a tool-call
\* part with the same call id, also when the tool_use and its tool_result
\* stood in one inbound message.
C25_ToolResultAfterCall ==
  Parsed =>
    \A i \in 1..Len(neutral.result) :
      \A p \in 1..Len(neutral.result[i].content) :
        neutral.result[i].content[p].type = "tool-result" =>
          \E j \in 1..(i - 1) :
            /\ neutral.result[j].role = "assistant"
            /\ ToolCallsOf(neutral.result[j].content,
                           neutral.result[i].content[p].toolCallId) # {}

\* the parts of the neutral prompt, in order
NeutralParts ==
  Flatten([i \in 1..Len(neutral.result) |-> neutral.result[i].content])

\* the part an image, document, thinking or redacted_thinking block is to
\* become
IsPartOf(part, block) ==
  CASE block.type \in {"image", "document"} ->
         /\ part.type = "file"
         /\ IF block.source.type = "base64"
            THEN part.data = block.source.data
            ELSE part.data = block.source.url
    [] block.type = "thinking" ->
         part.type = "reasoning" /\ part.text = block.thinking
    [] block.type = "redacted_thinking" ->
         part.type = "reasoning" /\ part.text = block.data
    [] OTHER -> TRUE

\* C26: every image or document block of the inbound messages has a file
\* part in the neutral prompt (with the bytes of a base64 source, the URL of
\* a url source) and every thinking or redacted_thinking block a reasoning
\* part (redacted_thinking.data as its text); no such block is dropped.
C26_NoBlockDropped ==
  Parsed =>
    \A b \in 1..Len(AllBlocks(inbound)) :
      AllBlocks(inbound)[b].type \in
          {"image", "document", "thinking", "redacted_thinking"} =>
        \E p \in 1..Len(NeutralParts) :
          /\ NeutralParts[p].type \in {"file", "reasoning"}
          /\ IsPartOf(NeutralParts[p], AllBlocks(inbound)[b])

(***************************************************************************)
(* Claims about requests that are not streamed, checked under Spec         *)
(***************************************************************************)
MessageFields ==
  {"id", "type", "role", "content", "model", "stop_reason", "stop_sequence",
   "usage"}

UsageCounters == {"input_tokens", "output_tokens", "cache_read_input_tokens"}

\* the finish-step chunks received and the message_delta events emitted
FinishStepsReceived == SelectSeq(received, LAMBDA c : c.type = "finish-step")
MessageDeltas == SelectSeq(emitted, LAMBDA e : e.type = "message_delta")

\* C30: input_tokens, output_tokens and cache_read_input_tokens are numbers
\* in every message_delta and in the JSON of a request that is not
\* streamed, and are 0 where the driver left inputTokens, outputTokens or
\* cachedInputTokens unreported.
C30_UsageDefaults ==
  /\ \A k \in 1..Len(MessageDeltas) :
       /\ \A counter \in UsageCounters :
            MessageDeltas[k].usage[counter].t = "number"
       /\ k <= Len(FinishStepsReceived) =>
            /\ FinishStepsReceived[k].usage.inputTokens = Undefined =>
                 MessageDeltas[k].usage.input_tokens = Num(0)
            /\ FinishStepsReceived[k].usage.outputTokens = Undefined =>
                 MessageDeltas[k].usage.output_tokens = Num(0)
  /\ \A i \in 1..Len(res.body) :
       (res.body[i].kind = "json" /\ res.statusCode = 200) =>
         \A counter \in UsageCounters :
           res.body[i].data.usage[counter].t = "number"

(***************************************************************************)
(* Claims about the end of a streamed response, checked under SpecLive     *)
(***************************************************************************)
\* the content block events of a response, in order
BlockEvents ==
  SelectSeq(emitted,
            LAMBDA e : e.type \in {"content_block_start",
                                   "content_block_delta",
                                   "content_block_stop"})

\* C28: the response of a streamed request whose driver stream ends, by a
\* finish chunk, by an error or by a chunk type transform() has no case for,
\* is eventually ended, and no response sees the block index an earlier
\* response left behind: its first content block event has index 0.
C28_ResponseEnds ==
  /\ (pc = "piping") ~> res.ended
  /\ [](BlockEvents # <<>> => BlockEvents[1].index = 0)

\* C28 witness: a response begun after one whose transcoder was left at
\* index 1 has emitted a block with index 0 and was ended after a chunk
\* type transform() has no case for
C28_Witness ==
  /\ earlier # None
  /\ earlier.index = 1
  /\ BlockEvents # <<>>
  /\ received[Len(received)].type = "tool-result"
  /\ tstate = "errored"
  /\ res.ended

(***************************************************************************)
(* Claims about concurrent responses, checked under SpecInstances          *)
(***************************************************************************)
\* the events a call of convertToAnthropicStream emits for a stream of its
\* own, from index i and buffer buf
RECURSIVE Replay(_, _, _)
Replay(chunks, i, buf) ==
  IF chunks = <<>> THEN <<>>
  ELSE LET r == transform(Head(chunks), i, buf)
       IN r.out \o Replay(Tail(chunks), r.index, r.buffer)

StartsOf(events) ==
  SelectSeq(events, LAMBDA e : e.type = "content_block_start")

\* C29: with the events of concurrent instances interleaved, the events an
\* instance emits are those its own chunks yield from index 0, and the first
\* content_block_start of every instance has index 0.
C29_IndexPrivate ==
  \A i \in DOMAIN instances :
    /\ instances[i].emitted = Replay(instances[i].received, 0, <<>>)
    /\ StartsOf(instances[i].emitted) # <<>> =>
         StartsOf(instances[i].emitted)[1].index = 0

\* C29 witness: the second instance emitted its first block with index 0
\* while the first instance had a block open at index 1
C29_Witness ==
  /\ Len(instances) = 2
  /\ instances[1].index = 1
  /\ instances[1].received[Len(instances[1].received)].type = "text-start"
  /\ instances[2].received = <<[type |-> "text-start"]>>
  /\ instances[2].emitted[1].index = 0

(***************************************************************************)
(* Claims about the stop reason, checked under Spec                        *)
(***************************************************************************)
\* the stop reason the Anthropic client is to see for a finish reason
StopReasonFor(finishReason) ==
  IF finishReason = "stop" THEN "end_turn"
  ELSE IF finishReason = "tool-calls" THEN "tool_use"
  ELSE IF finishReason = "length" THEN "max_tokens"
  ELSE "unknown"

\* C31: the stop_reason of every message_delta of a streamed response and
\* of the JSON of a request that is not streamed is end_turn for the finish
\* reason stop, tool_use for tool-calls, max_tokens for length and unknown
\* for every other finish reason of the finish step it reports.
C31_StopReason ==
  /\ \A k \in 1..Len(MessageDeltas) :
       k <= Len(FinishStepsReceived) =>
         MessageDeltas[k].stop_reason =
           StopReasonFor(FinishStepsReceived[k].finishReason)
  /\ \A i \in 1..Len(res.body) :
       (res.body[i].kind = "json" /\ res.statusCode = 200) =>
         /\ Len(FinishStepsReceived) = 1
         /\ res.body[i].data.stop_reason =
              StopReasonFor(FinishStepsReceived[1].finishReason)

\* a request that is not streamed is answered with the stop reason unknown,
\* for a finish reason outside the three listed
C31_Witness ==
  /\ ~bodyStream
  /\ res.ended
  /\ res.statusCode = 200
  /\ Len(res.body) = 1
  /\ res.body[1].kind = "json"
  /\ res.body[1].data.stop_reason = "unknown"
  /\ Len(FinishStepsReceived) = 1
  /\ FinishStepsReceived[1].finishReason = "content-filter"

(***************************************************************************)
(* Claims about reasoning parts, cache control and the order of turns,     *)
(* checked under SpecPrompt                                                *)
(***************************************************************************)
\* the reasoning parts of an assistant block and the thinking blocks of a
\* message, in order
ReasoningOf(parts) == SelectSeq(parts, LAMBDA p : p.type = "reasoning")
ThinkingOf(content) == SelectSeq(content, LAMBDA b : b.type = "thinking")

\* the reasoning parts of all assistant turns of the prompt
AllReasoning ==
  Flatten([m \in 1..Len(MessageBlocks) |->
             IF MessageBlocks[m].type = "assistant"
             THEN ReasoningOf(BlockParts(MessageBlocks[m]))
             ELSE <<>>])

\* the pushed warnings that say reasoning is not sent
ReasoningWarnings ==
  SelectSeq(conv.warnings,
            LAMBDA w : w.message =
              "sending reasoning content is disabled for this model")

\* C32: with sendReasoning every reasoning part of an assistant turn yields
\* one thinking block with its text, in order, and no warning is pushed;
\* without it no thinking block is emitted and one warning is pushed per
\* reasoning part.
C32_ReasoningGate ==
  Converted =>
    /\ \A m \in 1..Len(conv.messages) :
         LET thinking == ThinkingOf(conv.messages[m].content)
             reasoning == ReasoningOf(BlockParts(MessageBlocks[m]))
         IN IF sendReasoning /\ conv.messages[m].role = "assistant"
            THEN /\ Len(thinking) = Len(reasoning)
                 /\ \A k \in 1..Len(thinking) :
                      thinking[k].thinking = reasoning[k].text
            ELSE thinking = <<>>
    /\ Len(conv.warnings) = Len(ReasoningWarnings)
    /\ Len(ReasoningWarnings) =
         IF sendReasoning THEN 0 ELSE Len(AllReasoning)

\* a prompt with two reasoning parts converted without sendReasoning: two
\* warnings and no thinking block
C32_Witness ==
  /\ Converted
  /\ ~sendReasoning
  /\ Len(AllReasoning) = 2
  /\ Len(conv.warnings) = 2
  /\ \A m \in 1..Len(conv.messages) :
       ThinkingOf(conv.messages[m].content) = <<>>

\* a prompt with a reasoning part converted with sendReasoning
C32_WitnessSent ==
  /\ Converted
  /\ sendReasoning
  /\ Len(AllReasoning) >= 1
  /\ conv.warnings = <<>>
  /\ \E m \in 1..Len(conv.messages) :
       ThinkingOf(conv.messages[m].content) # <<>>

\* the parts a block merges, each with the cacheControl of its message and
\* whether it is the last part of that message
AnnotatedParts(block) ==
  Flatten([i \in 1..Len(block.messages) |->
             [k \in 1..Len(block.messages[i].content) |->
                [part |-> block.messages[i].content[k],
                 messageCc |-> block.messages[i].cc,
                 isLast |-> k = Len(block.messages[i].content)]]])

\* whether part i of a block yields a block of the output message
Emits(type, aparts, i) ==
  LET part == aparts[i].part
  IN IF type = "user" THEN TRUE
     ELSE CASE part.type = "text" -> TRUE
            [] part.type = "reasoning" -> sendReasoning
            [] part.type = "tool-call" ->
                 ~\E j \in 1..(i - 1) :
                    /\ aparts[j].part.type = "tool-call"
                    /\ aparts[j].part.toolCallId = part.toolCallId
            [] OTHER -> FALSE

\* the cache_control a block is to carry
ExpectedCacheControl(apart) ==
  IF apart.part.cc # NoCacheControl THEN apart.part.cc
  ELSE IF apart.isLast THEN apart.messageCc
  ELSE NoCacheControl

\* C33: the cache_control of a block emitted for a part of a user, tool or
\* assistant turn is the part's own cacheControl when it has one, else the
\* cacheControl of its turn when the part is the last of the turn, else
\* unset.
C33_CacheControl ==
  Converted =>
    \A m \in 1..Len(conv.messages) :
      LET content == conv.messages[m].content
          aparts == AnnotatedParts(MessageBlocks[m])
          kept == SelectSeqIdx(aparts,
                    LAMBDA i : Emits(MessageBlocks[m].type, aparts, i))
      IN /\ Len(content) = Len(kept)
         /\ \A k \in 1..Len(kept) :
              content[k].cache_control = ExpectedCacheControl(aparts[kept[k]])

\* a converted prompt with a tool turn and an assistant turn whose last
\* blocks carry the cacheControl of the turn while an earlier block of the
\* assistant turn carries none, and a block that carries its part's own
C33_Witness ==
  /\ Converted
  /\ \E m \in 1..Len(conv.messages) :
       LET content == conv.messages[m].content
       IN /\ conv.messages[m].role = "assistant"
          /\ Len(content) = 2
          /\ content[1].cache_control = NoCacheControl
          /\ content[2].cache_control = "ephemeral_1h"
  /\ \E m \in 1..Len(conv.messages) :
       LET content == conv.messages[m].content
       IN /\ content[Len(content)].type = "tool_result"
          /\ content[Len(content)].cache_control = "ephemeral_1h"
          /\ \E k \in 1..Len(content) :
               content[k].cache_control = "ephemeral"

(***************************************************************************)
(* Claims about the rendered assistant turn, checked under SpecParse       *)
(***************************************************************************)
\* C34: the message rendered for an assistant turn by
\* convertToLanguageModelMessage and then convertToAnthropicMessagesPrompt
\* holds no text block with an empty text, also when the final text part is
\* whitespace only and is trimmed.
C34_NoEmptyText ==
  (rendered # None /\ ~rendered.threw) =>
    \A m \in 1..Len(rendered.messages) :
      \A b \in 1..Len(rendered.messages[m].content) :
        LET block == rendered.messages[m].content[b]
        IN block.type = "text" => block.text # <<>>

(***************************************************************************)
(* Claims about system turns and the roles of the output, checked under    *)
(* SpecTurns                                                               *)
(***************************************************************************)
\* two system turns of the prompt have a turn of another role between them
SplitSystem(p) ==
  \E i, j, k \in 1..Len(p) :
    /\ i < j /\ j < k
    /\ p[i].role = "system" /\ p[j].role # "system" /\ p[k].role = "system"

\* a user turn holds a file part that is neither a PDF nor an image
UnsupportedUserFile(p) ==
  \E i \in 1..Len(p) :
    /\ p[i].role = "user"
    /\ \E k \in 1..Len(p[i].content) :
         /\ p[i].content[k].type = "file"
         /\ p[i].content[k].mediaType \notin
              {"application/pdf", "image/png", "image/jpeg"}

SystemTurns == SelectSeq(prompt, LAMBDA message : message.role = "system")

\* the system list of a converted prompt: one text block per system turn,
\* in order
SystemListed ==
  /\ conv.hasSystem <=> SystemTurns # <<>>
  /\ Len(conv.system) = Len(SystemTurns)
  /\ \A i \in 1..Len(SystemTurns) :
       /\ conv.system[i].type = "text"
       /\ conv.system[i].text = SystemTurns[i].text

\* C35 as stated: the conversion fails exactly when two system turns are
\* separated by a turn of another role, and otherwise the system turns
\* become one system list of one text block per turn, in order.
C35_FailsOnlyOnSplitSystem ==
  conv.ran =>
    /\ conv.threw <=> SplitSystem(prompt)
    /\ ~conv.threw => SystemListed

\* C35 amended: the conversion fails exactly when two system turns are
\* separated by a turn of another role or a user turn holds a file part
\* whose media type is neither application/pdf nor an image type, and
\* otherwise the system turns become one system list of one text block per
\* turn, in order.
C35_FailsOnSplitSystemOrFile ==
  conv.ran =>
    /\ conv.threw <=> (SplitSystem(prompt) \/ UnsupportedUserFile(prompt))
    /\ ~conv.threw => SystemListed

\* a prompt with a run of two system turns and a turn of another role is
\* converted, with a system list of two blocks
C35_Witness ==
  /\ Converted
  /\ Len(prompt) = 3
  /\ Len(conv.system) = 2
  /\ conv.system[1].text # conv.system[2].text

\* a prompt whose two system turns are separated fails
C35_WitnessSplit ==
  /\ conv.ran
  /\ conv.threw
  /\ SplitSystem(prompt)
  /\ ~UnsupportedUserFile(prompt)

(***************************************************************************)
(* Claims about the objects providerizeSchema works on, checked under      *)
(* SpecSchema                                                              *)
(***************************************************************************)
\* the objects the caller's schema was built of
CallerObjects == storeSchema(schema).objects

\* C36: providerizeSchema leaves the caller's schema object and all of its
\* nested nodes as they were, for every provider and schema: a removed
\* format and an added additionalProperties are found only in the schema
\* it returns, which is made of the objects it created and of unmodified
\* objects of the caller.
C36_CallerSchemaUnmodified ==
  heap # None =>
    /\ Len(heap.objects) >= Len(CallerObjects)
    /\ SubSeq(heap.objects, 1, Len(CallerObjects)) = CallerObjects
    /\ adapted # None =>
         readNode(heap.objects, heap.schema) =
           (IF readapted # None THEN readapted ELSE adapted)

\* a schema with a property of format uri adapted for openai: the result
\* differs from the caller's schema, objects were created, and the caller's
\* schema still reads as before
C36_Witness ==
  /\ adapted # None
  /\ schemaProvider = "openai"
  /\ adapted # schema
  /\ \E property \in PropertyNodes(schema) : property.format = "uri"
  /\ \A property \in PropertyNodes(adapted) : property.format # "uri"
  /\ Len(heap.objects) > Len(CallerObjects)
  /\ readNode(heap.objects, storeSchema(schema).schema) = schema

(***************************************************************************)
(* Claims about tool calls of a streamed response, checked under           *)
(* SpecStream                                                              *)
(***************************************************************************)
\* the places of the content_block_start events that open a tool_use block
ToolUseStarts ==
  {i \in 1..Len(emitted) :
     /\ emitted[i].type = "content_block_start"
     /\ emitted[i].content_block.type = "tool_use"}

\* the driver reports a tool call at most once chunk by chunk and at most
\* once as one tool-call chunk, and chunk by chunk first
ReportedOncePerWay ==
  \A i, j \in 1..Len(received) :
    /\ (/\ received[i].type = "tool-call"
        /\ received[j].type = "tool-input-start"
        /\ received[i].toolCallId = received[j].id) => j < i
    /\ (/\ received[i].type = "tool-input-start"
        /\ received[j].type = "tool-input-start"
        /\ received[i].id = received[j].id) => i = j
    /\ (/\ received[i].type = "tool-call"
        /\ received[j].type = "tool-call"
        /\ received[i].toolCallId = received[j].toolCallId) => i = j

\* C37: within one response no two content_block_start events of type
\* tool_use carry the same tool call id, also when the driver reports a
\* tool call chunk by chunk (tool-input-start, tool-input-delta,
\* tool-input-end) and then once more as one tool-call chunk with this id.
C37_ToolUseIdsDistinct ==
  (WellFormed(received) /\ ReportedOncePerWay) =>
    \A i, j \in ToolUseStarts :
      emitted[i].content_block.id = emitted[j].content_block.id => i = j

(***************************************************************************)
(* Claims about the writes to one response, checked under Spec             *)
(***************************************************************************)
\* the response holds an HTTP error answer, or an inline SSE error event
HttpErrorSent ==
  /\ res.statusCode >= 400
  /\ \E i \in 1..Len(res.body) : res.body[i].kind = "json"
SseErrorSent ==
  \E i \in 1..Len(res.body) :
    res.body[i].kind = "sse" /\ res.body[i].event = "error"

C39_RolesAlternate ==
  Converted =>
    \A m \in 1..(Len(conv.messages) - 1) :
      conv.messages[m].role # conv.messages[m + 1].role

(***************************************************************************)
(* Claims about DEFAULT_CONFIG, checked under SpecConfig                   *)
(***************************************************************************)
\* the config loadConfig() returns, with its providers and claude read
\* through their references
LoadedValues ==
  [loadConfig EXCEPT !.providers = providersOf(loadConfig),
                     !.claude = claudeOf(loadConfig)]

\* C40: after any sequence of ConfigManager operations and edits of a
\* loaded config by the setup wizard DEFAULT_CONFIG is as declared, and a
\* loadConfig while the config file is missing or invalid returns the
\* declared defaults, with every provider disabled and without apiKey.
C40_DefaultsUnmodified ==
  /\ DEFAULT_CONFIG = OriginalDefaults
  /\ configFile.state \in {"missing", "invalid"} =>
       /\ LoadedValues = OriginalDefaults
       /\ \A provider \in ProviderNames :
            /\ ~LoadedValues.providers[provider].enabled
            /\ "apiKey" \notin DOMAIN LoadedValues.providers[provider]

====
